---- MODULE Spec2Model ----
(***************************************************************************)
(* Model of finance-tracker-bot: the /record conversation (record.py),     *)
(* the schedule operations of /settings (settings.py) and the scheduled    *)
(* task add_to_spreadsheet (utils.py) that appends the locally saved       *)
(* records to the spreadsheet (spreadsheet.py), and the amount parsers of  *)
(* utils.py and of bot/currencies.py.                                      *)
(*                                                                         *)
(* Handlers run one at a time on the dispatcher thread; a scheduled task   *)
(* runs on a worker thread of the job queue's scheduler, so its steps      *)
(* interleave with the handlers.  One user is modelled.                    *)
(***************************************************************************)
EXTENDS Integers, Sequences, FiniteSets, TLC

(* ------------------------------- bounds -------------------------------- *)
\* longest list of locally saved records
MaxPending == 2
\* most rows the spreadsheet receives
MaxLedger == 2
\* most schedule installations
MaxSched == 2
\* worker threads of the scheduler that are modelled
NThreads == 2
\* distinct minutes a record can be stamped with
MaxTime == 1
\* most accounts a user keeps
MaxAccounts == 2
\* most characters of the amount texts made of every character of amounts
MaxAmountLen == 3
\* most months the calendar is turned away from the month of today
MaxMonths == 1
\* most records of the user_data of bot/
MaxRecords == 2

Threads == 1..NThreads
Times == 1..MaxTime

(* ------------------------------- values -------------------------------- *)
\* Python values stored in the dictionaries of user_data
None == <<"none">>
Str(s) == <<"str", s>>
Bool(b) == <<"bool", b>>
Stamp(n) == <<"time", n>>

\* a Python dict is a function; {} is the function with the empty domain
EmptyDict == [k \in {} |-> None]
\* d.update({k: v})
DictSet(d, k, v) == [x \in (DOMAIN d) \cup {k} |-> IF x = k THEN v ELSE d[x]]
\* del d[k]
DictDel(d, k) == [x \in (DOMAIN d) \ {k} |-> d[x]]
\* d.get(k) is truthy
Truthy(d, k) == k \in DOMAIN d /\ d[k] \notin {None, Bool(FALSE), Str(<<>>)}

\* an OrderedDict is the sequence of its <<key, value>> items
OKeys(d) == {d[i][1] : i \in 1..Len(d)}
OIndex(d, k) == CHOOSE i \in 1..Len(d) : d[i][1] = k
OGet(d, k) == d[OIndex(d, k)][2]
\* d[k] = v: a key that is present keeps its place, a new key goes last
OSet(d, k, v) ==
    IF k \in OKeys(d) THEN [d EXCEPT ![OIndex(d, k)] = <<k, v>>]
    ELSE Append(d, <<k, v>>)
\* del d[k]
ODel(d, k) ==
    LET i == OIndex(d, k) IN
    [j \in 1..(Len(d) - 1) |-> IF j < i THEN d[j] ELSE d[j + 1]]
\* list(d.values())
OValues(d) == [i \in 1..Len(d) |-> d[i][2]]
\* d.update(items)
RECURSIVE OUpdate(_, _)
OUpdate(d, items) ==
    IF items = <<>> THEN d
    ELSE OUpdate(OSet(d, Head(items)[1], Head(items)[2]), Tail(items))

\* the one user of the model
UserId == "u"

(* ------------------------------- texts ---------------------------------- *)
\* a text is the sequence of its characters
Text == <<"a">>
Texts == {Text}

DigitChars == <<"0", "1", "2", "3", "4", "5", "6", "7", "8", "9">>
Digits == {DigitChars[i] : i \in 1..10}
DigitValue(c) == (CHOOSE i \in 1..10 : DigitChars[i] = c) - 1

LowerChars == <<"a", "b", "c", "d", "e", "f", "g", "h", "i", "j", "k", "l", "m",
                "n", "o", "p", "q", "r", "s", "t", "u", "v", "w", "x", "y", "z">>
UpperChars == <<"A", "B", "C", "D", "E", "F", "G", "H", "I", "J", "K", "L", "M",
                "N", "O", "P", "Q", "R", "S", "T", "U", "V", "W", "X", "Y", "Z">>
Lower == {LowerChars[i] : i \in 1..26}
Upper == {UpperChars[i] : i \in 1..26}
\* c.upper()
upper(c) == IF c \in Lower THEN UpperChars[CHOOSE i \in 1..26 : LowerChars[i] = c] ELSE c

\* re.match(word, text, re.IGNORECASE) for a word without operators
StartsWith(text, word) ==
    /\ Len(text) >= Len(word)
    /\ \A i \in 1..Len(word) : upper(text[i]) = upper(word[i])

\* the digits of a decimal numeral, as a number
RECURSIVE ToInt(_)
ToInt(ds) == IF ds = <<>> THEN 0
             ELSE 10 * ToInt(SubSeq(ds, 1, Len(ds) - 1)) + DigitValue(ds[Len(ds)])

\* text.replace(a, b) for characters a and b
Replace(text, a, b) == [i \in 1..Len(text) |-> IF text[i] = a THEN b ELSE text[i]]
\* the characters of text that are in the set cs, in their order
Keep(text, cs) == SelectSeq(text, LAMBDA c : c \in cs)
\* text[:-n] and text[-n:]
ButLast(text, n) == SubSeq(text, 1, Len(text) - n)
Last(text, n) == IF Len(text) <= n THEN text ELSE SubSeq(text, Len(text) - n + 1, Len(text))
\* the positions of character c in text
Positions(text, c) == {i \in 1..Len(text) : text[i] = c}

\* the places of the characters of text that are not in cs
Others(text, cs) == {i \in 1..Len(text) : text[i] \notin cs}
\* the least of a set of numbers that is not empty
Least(S) == CHOOSE i \in S : \A j \in S : i <= j
\* text.strip(), for the blanks and line breaks of the model
Whitespace == {" ", "\n"}
strip(text) ==
    LET inner == Others(text, Whitespace) IN
    IF inner = {} THEN <<>>
    ELSE SubSeq(text, Least(inner), CHOOSE i \in inner : \A j \in inner : j <= i)
\* text.split(",")
RECURSIVE split(_)
split(text) ==
    IF Positions(text, ",") = {} THEN <<text>>
    ELSE LET i == Least(Positions(text, ","))
         IN <<SubSeq(text, 1, i - 1)>> \o split(SubSeq(text, i + 1, Len(text)))

(* ------------------------------ constants ------------------------------ *)
RECORD_KEYS == <<"date", "reason", "amount", "currency", "account", "recorded_on">>
\* OrderedDict.fromkeys(RECORD_KEYS)
FromKeys == [i \in 1..Len(RECORD_KEYS) |-> <<RECORD_KEYS[i], None>>]

SERVICE_ACCOUNT == FALSE

\* the scheduler runs at most this many instances of a job id at a time
MaxInstances == 1

VARIABLES
    records,            \* user_data["records"], the list to append
    has_records,        \* "records" in user_data
    record,             \* user_data["record"], the record being entered
    has_record,         \* "record" in user_data
    start_over,         \* user_data["start_over"]
    auth,               \* user_data["auth"]
    token_file_exists,  \* the token file of the user exists on disk
    spreadsheet,        \* user_data["spreadsheet"]
    accounts,           \* user_data["accounts"]
    default_cur,        \* user_data["default_cur"]
    top,                \* state of record_handler for the user
    sub,                \* state of new_record_handler for the user
    stg,                \* state of settings_handler for the user
    lgn,                \* state of login_handler for the user
    sps,                \* state of spreadsheet_handler for the user
    sch,                \* state of schedule_handler for the user
    acc,                \* state of accounts_handler for the user
    cur,                \* state of currency_handler for the user
    reply,              \* the reply to the last update a handler took
    ret,                \* the handler that took the last update and the state
                        \* it returned, "raised" when it raised
    jobs,               \* the jobs of the job queue
    nsched,             \* jobs installed so far
    pc,                 \* where each worker thread is in add_to_spreadsheet
    ctx,                \* context.job of each worker thread
    begun,              \* the records when the task of the thread started
    vals,               \* values, the batch the thread passes to append_records
    res,                \* what append_records of the thread did
    ledger,             \* the rows of the sheet
    sent,               \* the message of the last scheduled task
    raised,             \* the last finished task raised an exception
    failed,             \* history: the last task whose write failed, while
                        \* the records have not been saved to or cleared since
    given,              \* the text an amount parser is given
    parsed,             \* what the amount parser did with it
    bot                 \* bot/: user_data and the conversation of the user

convVars == <<record, has_record, start_over, top, sub>>
otherMenus == <<lgn, sps, acc, cur>>
menuVars == <<stg, sch, otherMenus>>
prefVars == <<accounts, default_cur>>
confVars == <<auth, token_file_exists, spreadsheet, prefVars>>
jobVars == <<jobs, nsched>>
taskVars == <<pc, ctx, begun, vals, res>>
outVars == <<ledger, sent, raised, failed>>
parseVars == <<given, parsed, bot>>
vars == <<records, has_records, convVars, menuVars, confVars, reply, ret, jobVars,
          taskVars, outVars, parseVars>>

(* --------------------------- utils.py: checks --------------------------- *)
\* mutant: `records is None` instead of `not records`
no_records_is_none(has, recs) == ~has

\* `not records` for records = user_data.get("records")
no_records(has, recs) == ~has \/ recs = <<>>

\* mutant: the login only has to have been started
check_auth_started(auth_data) == Truthy(auth_data, "auth_type")

\* check_auth(auth_data)
check_auth(auth_data) ==
    IF DOMAIN auth_data = {} THEN FALSE
    ELSE IF ~Truthy(auth_data, "auth_type") THEN FALSE
    ELSE IF Truthy(auth_data, "auth_is_done")
         THEN IF "creds" \in DOMAIN auth_data THEN TRUE
              ELSE "token_file" \in DOMAIN auth_data /\ token_file_exists
         ELSE FALSE

\* check_spreadsheet(spreadsheet_data): the value it returns
check_spreadsheet(spreadsheet_data) ==
    IF DOMAIN spreadsheet_data = {} THEN FALSE
    ELSE Truthy(spreadsheet_data, "id") /\ Truthy(spreadsheet_data, "sheet_name")

\* check_spreadsheet(spreadsheet_data): the dictionary it leaves behind
check_spreadsheet_data(spreadsheet_data) ==
    IF DOMAIN spreadsheet_data = {} THEN spreadsheet_data
    ELSE DictSet(spreadsheet_data, "is_set", Bool(check_spreadsheet(spreadsheet_data)))

\* oauth(user_data=auth_data) as add_to_spreadsheet calls it: the ways it can
\* end.  Stored credentials are valid, or expired and refreshed, or the
\* refresh raises; without stored credentials the new OAuth flow is started
\* with no client secret file and raises TypeError.
OAuthOutcomes(auth_data) ==
    IF SERVICE_ACCOUNT THEN {"ok", "Exception"}
    ELSE IF "creds" \in DOMAIN auth_data THEN {"ok", "RefreshError", "Exception"}
    ELSE {"Exception"}

\* mutant: one except clause for every exception
credentials_message_generic(exception) == "error"

\* the message of the except clause that catches the exception of oauth
credentials_message(exception) ==
    IF exception = "RefreshError" THEN "relogin" ELSE "error"

(* ------------------------ spreadsheet.py: append ------------------------ *)
\* Spreadsheet.append_records(values): what the call can do.
\*   "ok"               the rows are appended, the response is returned
\*   "SpreadsheetError" raised by the sheet/doc properties or for a 403
\*   "APIError"         an APIError that is not 403 PERMISSION_DENIED: the
\*                      except clause ends without raising, None is returned
\*   "Exception"        any other exception of the client, it propagates
AppendOutcomes == {"ok", "SpreadsheetError", "APIError", "Exception"}

\* append_records returns instead of raising
AppendReturns(outcome) == outcome \in {"ok", "APIError"}

\* the exception of append_records is a SpreadsheetError
AppendRaisesSpreadsheetError(outcome) == outcome = "SpreadsheetError"

(* -------------------------- the job queue ------------------------------- *)
job_name(user_id) == <<"append_data_", user_id>>

\* mutant: no id in job_kwargs, the scheduler gives every job an id of its own
job_id_generated(user_id, n) == <<user_id, n>>

\* job_kwargs["id"]: the id the scheduler knows the job of a user by
job_id(user_id, n) == <<user_id>>

NoJob ==
    [id |-> <<>>, name |-> <<>>, kind |-> "none", recurring |-> FALSE, seq |-> 0,
     at |-> <<>>]

NewJob(kind, recurring, n) ==
    [id |-> job_id(UserId, n), name |-> job_name(UserId), kind |-> kind,
     recurring |-> recurring, seq |-> n, at |-> <<>>]

\* a job with the arguments of its trigger: when, time, days or day
JobAt(kind, recurring, n, at) == [NewJob(kind, recurring, n) EXCEPT !.at = at]

\* job_queue.get_jobs_by_name(name)
get_jobs_by_name(js, name) == {j \in js : j.name = name}

\* remove_job_if_exists(name, context): the jobs it leaves
remove_job_if_exists_jobs(js, name) == js \ get_jobs_by_name(js, name)

\* mutant: the jobs are looked up after they have been removed
remove_job_if_exists_late(js, name) ==
    get_jobs_by_name(remove_job_if_exists_jobs(js, name), name) # {}

\* remove_job_if_exists(name, context): the value it returns
remove_job_if_exists(js, name) == get_jobs_by_name(js, name) # {}

\* job_queue.run_*(..., job_kwargs={"id": ..., "replace_existing": True})
run_job(js, j) == {k \in js : k.id # j.id} \cup {j}

\* instances of the job id that are running
Instances(id) == Cardinality({t \in Threads : pc[t] # "idle" /\ ctx[t].id = id})

IdleThreads == {t \in Threads : pc[t] = "idle"}


(* ------------------- utils.py: add_to_spreadsheet ----------------------- *)
\* [list(record.values()) for record in records]
Rows(recs) == [i \in 1..Len(recs) |-> OValues(recs[i])]

NoFail == [on |-> FALSE, rows |-> <<>>, ledger |-> <<>>]

Msg(kind, count) == [kind |-> kind, count |-> count]
NoMsg == Msg("none", 0)

\* the task of thread t returns or raises: the thread is free again
Done(t) ==
    /\ pc' = [pc EXCEPT ![t] = "idle"]
    /\ ctx' = [ctx EXCEPT ![t] = NoJob]
    /\ begun' = [begun EXCEPT ![t] = <<>>]
    /\ vals' = [vals EXCEPT ![t] = <<>>]
    /\ res' = [res EXCEPT ![t] = "none"]

\* the scheduler finds job j due and submits it to a worker thread; a job
\* that does not recur leaves the job store
Fire(j) ==
    /\ j \in jobs
    /\ Instances(j.id) < MaxInstances
    /\ IdleThreads # {}
    /\ LET t == CHOOSE x \in IdleThreads : \A y \in IdleThreads : x <= y IN
        /\ pc' = [pc EXCEPT ![t] = "start"]
        /\ ctx' = [ctx EXCEPT ![t] = j]
    /\ jobs' = IF j.recurring THEN jobs ELSE jobs \ {j}
    /\ sent' = NoMsg
    /\ raised' = FALSE
    /\ UNCHANGED <<parseVars, records, has_records, convVars, menuVars, confVars, reply, ret,
                   nsched, begun, vals, res, ledger, failed>>

\* the scheduler finds job j due while an instance of its id still runs:
\* the run is skipped
Skip(j) ==
    /\ j \in jobs
    /\ Instances(j.id) >= MaxInstances
    /\ jobs' = IF j.recurring THEN jobs ELSE jobs \ {j}
    /\ UNCHANGED <<parseVars, records, has_records, convVars, menuVars, confVars, reply, ret,
                   nsched, taskVars, outVars>>

\* add_to_spreadsheet, lines 338-372: the records and the two checks
Begin(t) ==
    /\ pc[t] = "start"
    /\ IF no_records(has_records, records)
       THEN /\ sent' = Msg("no_records", 0)
            /\ Done(t)
            /\ UNCHANGED spreadsheet
       ELSE IF ~check_auth(auth)
       THEN /\ sent' = Msg("auth_incomplete", 0)
            /\ Done(t)
            /\ UNCHANGED spreadsheet
       ELSE IF ~check_spreadsheet(spreadsheet)
       THEN /\ sent' = Msg("not_set", 0)
            /\ Done(t)
            /\ spreadsheet' = check_spreadsheet_data(spreadsheet)
       ELSE /\ pc' = [pc EXCEPT ![t] = "oauth"]
            /\ begun' = [begun EXCEPT ![t] = records]
            /\ spreadsheet' = check_spreadsheet_data(spreadsheet)
            /\ UNCHANGED <<sent, ctx, vals, res>>
    /\ UNCHANGED <<parseVars, records, has_records, convVars, menuVars, auth,
                   token_file_exists, prefVars, reply, ret, jobVars, ledger,
                   raised, failed>>

\* add_to_spreadsheet, lines 375-381: oauth is called and loads, and
\* refreshes when expired, the credentials
CallOAuth(t) ==
    /\ pc[t] = "oauth"
    /\ \E o \in OAuthOutcomes(auth) : res' = [res EXCEPT ![t] = o]
    /\ pc' = [pc EXCEPT ![t] = "creds"]
    /\ UNCHANGED <<parseVars, records, has_records, convVars, menuVars, confVars, reply, ret,
                   jobVars, ctx, begun, vals, outVars>>

\* add_to_spreadsheet, lines 382-399: oauth returns or raises
ReturnOAuth(t) ==
    /\ pc[t] = "creds"
    /\ IF res[t] = "ok"
       THEN /\ pc' = [pc EXCEPT ![t] = "append"]
            /\ res' = [res EXCEPT ![t] = "none"]
            /\ UNCHANGED <<sent, ctx, begun, vals>>
       ELSE /\ sent' = Msg(credentials_message(res[t]), 0)
            /\ Done(t)
    /\ UNCHANGED <<parseVars, records, has_records, convVars, menuVars, confVars, reply, ret,
                   jobVars, ledger, raised, failed>>

\* add_to_spreadsheet, lines 403-404: the rows are built from the records
\* and append_records is called; the sheet takes the rows when the call
\* succeeds
CallAppend(t) ==
    /\ pc[t] = "append"
    /\ LET values == Rows(records) IN
        /\ vals' = [vals EXCEPT ![t] = values]
        /\ \E o \in AppendOutcomes :
            /\ res' = [res EXCEPT ![t] = o]
            /\ IF o = "ok"
               THEN /\ Len(ledger) + Len(values) <= MaxLedger
                    /\ ledger' = ledger \o values
               ELSE UNCHANGED ledger
    /\ pc' = [pc EXCEPT ![t] = "writing"]
    /\ UNCHANGED <<parseVars, records, has_records, convVars, menuVars, confVars, reply, ret,
                   jobVars, ctx, begun, sent, raised, failed>>

\* add_to_spreadsheet, lines 404-416: append_records returns or raises
ReturnAppend(t) ==
    /\ pc[t] = "writing"
    /\ IF AppendReturns(res[t])
       THEN /\ sent' = Msg("success", Len(records))
            /\ records' = <<>>
            /\ raised' = FALSE
       ELSE IF AppendRaisesSpreadsheetError(res[t])
       THEN /\ sent' = Msg("write_failed", 0)
            /\ raised' = TRUE
            /\ UNCHANGED records
       ELSE /\ raised' = TRUE
            /\ UNCHANGED <<sent, records>>
    /\ failed' = IF res[t] # "ok" /\ begun[t] # <<>> /\ records = begun[t]
                 THEN [on |-> TRUE, rows |-> Rows(begun[t]), ledger |-> ledger]
                 ELSE NoFail
    /\ Done(t)
    /\ UNCHANGED <<parseVars, has_records, convVars, menuVars, confVars, reply, ret, jobVars, ledger>>


(* --------------------------- utils.py: parsers -------------------------- *)
EuroSign == "<euro>"
PoundSign == "<pound>"

\* CURRENCIES of constants.py
CURRENCIES ==
    [c \in {"E", EuroSign, "U", "$", "C", "G", PoundSign} |->
        CASE c \in {"E", EuroSign} -> <<"E", "U", "R">>
          [] c \in {"U", "$"} -> <<"U", "S", "D">>
          [] c = "C" -> <<"C", "H", "F">>
          [] OTHER -> <<"G", "P", "B">>]

\* a float, in hundredths
Num(cents) == <<"num", cents>>

\* re.search(r"([A-Za-z€$£])", number_str): the first such character, or "X"
cur_symbol(number_str) ==
    LET found == {i \in 1..Len(number_str) :
                    number_str[i] \in Lower \cup Upper \cup {EuroSign, "$", PoundSign}}
    IN IF found = {} THEN "X"
       ELSE number_str[CHOOSE i \in found : \A j \in found : i <= j]

\* the number string of currency_parser as it is passed to float
number_str_of(text) ==
    LET stripped == Keep(text, Digits \cup {"-", ",", ".", "'"})
        joined == Keep(ButLast(stripped, 3), Digits \cup {"-"}) \o Last(stripped, 3)
    IN IF Positions(Last(joined, 3), ",") # {} THEN Replace(joined, ",", ".")
       ELSE joined

\* the digits of a float literal, without its sign
float_body(number_str) ==
    IF number_str # <<>> /\ number_str[1] = "-" THEN Tail(number_str) ELSE number_str

\* float(number_str) raises ValueError
float_raises(number_str) ==
    LET body == float_body(number_str) IN
    \/ Keep(body, Digits) = <<>>
    \/ \E i \in 1..Len(body) : body[i] \notin Digits \cup {"."}
    \/ Cardinality(Positions(body, ".")) > 1

\* round(float(number_str), 2), in hundredths
float_cents(number_str) ==
    LET body == float_body(number_str)
        dots == Positions(body, ".")
        dot == IF dots = {} THEN Len(body) + 1 ELSE CHOOSE i \in dots : TRUE
        whole == SubSeq(body, 1, dot - 1)
        frac == SubSeq(SubSeq(body, dot + 1, Len(body)) \o <<"0", "0">>, 1, 2)
        cents == 100 * ToInt(whole) + ToInt(frac)
    IN IF number_str # <<>> /\ number_str[1] = "-" THEN 0 - cents ELSE cents

\* currency_parser(number_str) raises
currency_parser_raises(text) == float_raises(number_str_of(text))

\* currency_parser(number_str): the amount and the currency
currency_parser(text) ==
    LET symbol == upper(cur_symbol(text)) IN
    <<Num(float_cents(number_str_of(text))),
      Str(IF symbol \in DOMAIN CURRENCIES THEN CURRENCIES[symbol] ELSE <<"X">>)>>

\* dateutil's parse(value, dayfirst=True) for the texts "A<sep>B" of two
\* numbers of 1..28, and for texts with a word that names no month, day or
\* time: the <<day, month>> found, or <<>> when ParserError is raised
DateSeparators == {"/", "-", " "}

parse(value) ==
    LET seps == {i \in 1..Len(value) : value[i] \in DateSeparators} IN
    IF Cardinality(seps) # 1 \/ Keep(value, Digits \cup DateSeparators) # value
    THEN <<>>
    ELSE LET p == CHOOSE i \in seps : TRUE
             first == ToInt(SubSeq(value, 1, p - 1))
             second == ToInt(SubSeq(value, p + 1, Len(value)))
         IN IF p = 1 \/ p = Len(value) THEN <<>>
            ELSE IF second <= 12 THEN <<first, second>>
            ELSE IF first <= 12 THEN <<second, first>>
            ELSE <<>>

\* date.strftime("%d/%m/%Y") of a date of this year
strftime(date) == <<"date", date[1], date[2]>>

\* parse_data(key, value) raises
parse_data_raises(key, value) ==
    IF key = "date" THEN parse(value) = <<>>
    ELSE IF key = "amount" THEN currency_parser_raises(value)
    ELSE FALSE

\* mutant: the amount is stored without its currency
parse_data_amount_only(key, value) ==
    IF key = "date" THEN <<<<key, strftime(parse(value))>>>>
    ELSE IF key = "amount" THEN <<<<key, currency_parser(value)[1]>>>>
    ELSE <<<<key, Str(value)>>>>

\* parse_data(key, value): the items of the dictionary it returns
parse_data(key, value) ==
    IF key = "date" THEN <<<<key, strftime(parse(value))>>>>
    ELSE IF key = "amount"
    THEN <<<<key, currency_parser(value)[1]>>, <<"currency", currency_parser(value)[2]>>>>
    ELSE <<<<key, Str(value)>>>>

\* data_to_str(data): the facts shown, the items with a value that are not
\* the time of recording
data_to_str(data) ==
    SelectSeq(data, LAMBDA item :
        item[2] \notin {None, Str(<<>>), Num(0)} /\ item[1] # "recorded_on")

(* ----------------------- bot/currencies.py: parser ---------------------- *)
\* CURRENCIES of bot/currencies.py: the code, the symbol and the aliases of
\* each currency
currencies_CURRENCIES ==
    << [code |-> <<"E", "U", "R">>, symbol |-> <<EuroSign>>,
        aliases |-> {<<EuroSign>>, <<"e", "u", "r">>, <<"e", "u", "r", "o">>}],
       [code |-> <<"U", "S", "D">>, symbol |-> <<"$">>,
        aliases |-> {<<"u", "s", "$">>, <<"u", "s", "d">>,
                     <<"d", "o", "l", "l", "a", "r">>}],
       [code |-> <<"C", "H", "F">>, symbol |-> <<"C", "H", "F">>,
        aliases |-> {<<"c", "h", "f">>, <<"f", "r", "a", "n", "c">>,
                     <<"S", "f", "r", ".">>, <<"s", "f", "r", ".">>,
                     <<"S", "f", "r">>, <<"s", "f", "r">>}],
       [code |-> <<"G", "B", "P">>, symbol |-> <<PoundSign>>,
        aliases |-> {<<"g", "b", "p">>, <<"p", "o", "u", "n", "d">>,
                     <<"U", "K", "P">>, <<"u", "k", "p">>,
                     <<"q", "u", "i", "d">>,
                     <<"s", "t", "e", "r", "l", "i", "n", "g">>}] >>

CURRENCIES_CODES == {currencies_CURRENCIES[i].code : i \in 1..Len(currencies_CURRENCIES)}
CURRENCIES_SYMBOLS == {currencies_CURRENCIES[i].symbol : i \in 1..Len(currencies_CURRENCIES)}
CURRENCIES_ALIASES == UNION {currencies_CURRENCIES[i].aliases : i \in 1..Len(currencies_CURRENCIES)}

\* the words of symbols that are in text at place i
WordsAt(symbols, text, i) ==
    {w \in symbols : i + Len(w) - 1 <= Len(text) /\ SubSeq(text, i, i + Len(w) - 1) = w}

\* or_regex(symbols).search(text): the word found first from the left, or
\* None; the words that are found at one place ("eur" and "euro") are of one
\* currency
or_regex(symbols, text) ==
    LET hits == {i \in 1..Len(text) : WordsAt(symbols, text, i) # {}}
    IN IF hits = {} THEN None
       ELSE Str(CHOOSE w \in WordsAt(symbols, text, Least(hits)) : TRUE)

\* extract_currency(amount): the codes are looked for, then the symbols, then
\* the aliases, as they are written
extract_currency(amount) ==
    IF amount = <<>> THEN None
    ELSE IF or_regex(CURRENCIES_CODES, amount) # None THEN or_regex(CURRENCIES_CODES, amount)
    ELSE IF or_regex(CURRENCIES_SYMBOLS, amount) # None THEN or_regex(CURRENCIES_SYMBOLS, amount)
    ELSE or_regex(CURRENCIES_ALIASES, amount)

\* mutant: the word of no currency gets the code X
symbol_from_str_or_x(alias) ==
    IF alias \in {None, Str(<<>>)} THEN Str(<<"X">>)
    ELSE LET known == {i \in 1..Len(currencies_CURRENCIES) :
                        alias[2] \in {currencies_CURRENCIES[i].code,
                                      currencies_CURRENCIES[i].symbol}
                                     \cup currencies_CURRENCIES[i].aliases}
         IN IF known = {} THEN Str(<<"X">>) ELSE Str(currencies_CURRENCIES[Least(known)].code)

\* symbol_from_str(alias): the code of the currency of the word, or None
symbol_from_str(alias) ==
    IF alias \in {None, Str(<<>>)} THEN None
    ELSE LET known == {i \in 1..Len(currencies_CURRENCIES) :
                        alias[2] \in {currencies_CURRENCIES[i].code,
                                      currencies_CURRENCIES[i].symbol}
                                     \cup currencies_CURRENCIES[i].aliases}
         IN IF known = {} THEN None ELSE Str(currencies_CURRENCIES[Least(known)].code)

\* re.sub(r"\s+", " ", amount)
RECURSIVE squeeze(_)
squeeze(amount) ==
    IF amount = <<>> THEN <<>>
    ELSE IF Head(amount) \in Whitespace
    THEN LET rest == Tail(amount)
             inner == Others(rest, Whitespace)
         IN <<" ">> \o (IF inner = {} THEN <<>>
                        ELSE squeeze(SubSeq(rest, Least(inner), Len(rest))))
    ELSE <<Head(amount)>> \o squeeze(Tail(amount))

\* the number of digits of text from place i on
DigitRun(text, i) ==
    LET stops == {j \in i..Len(text) : text[j] \notin Digits}
    IN IF stops = {} THEN Len(text) - i + 1 ELSE Least(stops) - i

\* [\d\s.,] and [\d\s.,'] of the patterns of extract_number
NumberChars == Digits \cup Whitespace \cup {".", ","}
PriceChars == NumberChars \cup {"'"}

\* extract_number: m.group(0) of the pattern of the amounts with one euro
\* sign, or None.  Before the sign come a digit and white space, and before
\* them digits, white space, points and commas from as far left as they
\* reach; after the sign come digits and what follows them, or a blank, two
\* digits and what follows them, and what follows is not a digit.
euro_search(amount) ==
    LET e == CHOOSE i \in Positions(amount, EuroSign) : TRUE
        digit == {k \in 1..(e - 1) : /\ amount[k] \in Digits
                                     /\ \A j \in (k + 1)..(e - 1) : amount[j] \in Whitespace}
        blank == IF e < Len(amount) /\ amount[e + 1] \in Whitespace THEN 1 ELSE 0
        m == DigitRun(amount, e + blank + 1)
        last == e + blank + m
    IN IF digit = {} \/ ~(IF blank = 0 THEN m >= 1 ELSE m = 2) THEN None
       ELSE LET k == CHOOSE i \in digit : TRUE
                from == Least({i \in 1..k : \A j \in i..k : amount[j] \in NumberChars})
                to == IF last < Len(amount) THEN last + 1 ELSE last
            IN Str(SubSeq(amount, from, to))

\* extract_number: the length of [-]?[.]?\d at place i of amount, 0 when
\* it is not there
price_head(amount, i) ==
    LET digit(j) == j <= Len(amount) /\ amount[j] \in Digits IN
    IF digit(i) THEN 1
    ELSE IF amount[i] \in {"-", "."} /\ digit(i + 1) THEN 2
    ELSE IF amount[i] = "-" /\ i < Len(amount) /\ amount[i + 1] = "." /\ digit(i + 2) THEN 3
    ELSE 0

\* extract_number: the length of group 1 of the second pattern matched at
\* place i, 0 when it does not match there.  The group takes the digits,
\* white space, points, commas and quotes that follow as far as they reach;
\* when a "%" comes next it gives them back until what comes next is not a
\* digit.
price_group(amount, i) ==
    LET h == price_head(amount, i)
        stops == {j \in (i + h)..Len(amount) : amount[j] \notin PriceChars}
        next == IF stops = {} THEN Len(amount) + 1 ELSE Least(stops)
        back == {j \in (i + h)..(next - 1) : amount[j] \notin Digits}
    IN IF h = 0 THEN 0
       ELSE IF next > Len(amount) \/ amount[next] # "%" THEN next - i
       ELSE IF back = {} THEN 0
       ELSE (CHOOSE j \in back : \A k \in back : k <= j) - i

\* extract_number: m.group(1) of the second pattern, or None
price_search(amount) ==
    LET hits == {i \in 1..Len(amount) : price_group(amount, i) > 0}
    IN IF hits = {} THEN None
       ELSE Str(SubSeq(amount, Least(hits), Least(hits) + price_group(amount, Least(hits)) - 1))

\* text.rstrip(",.") and text.lstrip(",.")
rstrip(text, cs) ==
    LET inner == Others(text, cs) IN
    IF inner = {} THEN <<>> ELSE SubSeq(text, 1, CHOOSE i \in inner : \A j \in inner : j <= i)
lstrip(text, cs) ==
    LET inner == Others(text, cs) IN
    IF inner = {} THEN <<>> ELSE SubSeq(text, Least(inner), Len(text))

\* c.lower()
lower(c) == IF c \in Upper THEN LowerChars[CHOOSE i \in 1..26 : UpperChars[i] = c] ELSE c

\* extract_number(amount): the text of the number, or None
extract_number(amount) ==
    LET clean == squeeze(amount)
        euro == IF Cardinality(Positions(clean, EuroSign)) = 1 THEN euro_search(clean)
                ELSE None
        price == price_search(clean)
        price_text == rstrip(price[2], {",", "."})
        free == <<"f", "r", "e", "e">>
    IN IF euro # None THEN Str(SelectSeq(euro[2], LAMBDA c : c # " "))
       ELSE IF price # None
       THEN Str(IF Cardinality(Positions(price_text, ".")) = 1 THEN strip(price_text)
                ELSE strip(lstrip(price_text, {",", "."})))
       ELSE IF \E i \in 1..Len(clean) : WordsAt({free}, [j \in 1..Len(clean) |-> lower(clean[j])], i) # {}
       THEN Str(<<"0">>)
       ELSE None

\* mutant: the last separator is the decimal separator whatever the number
\* of the digits after it
decimal_separator_any(number) ==
    LET seps == Others(number, Digits)
        p == CHOOSE i \in seps : \A j \in seps : j <= i
    IN IF seps = {} THEN None
       ELSE IF number[p] \in {".", ",", EuroSign} /\ p < Len(number)
       THEN Str(<<number[p]>>)
       ELSE None

\* parse_number: match.group(1) of _search_decimal_sep, or None: the last
\* character that is not a digit, when it is a point, a comma or a euro
\* sign and 1, 2 or at least 4 digits follow it to the end
decimal_separator(number) ==
    LET seps == Others(number, Digits)
        p == CHOOSE i \in seps : \A j \in seps : j <= i
        n == Len(number) - p
    IN IF seps = {} THEN None
       ELSE IF number[p] \in {".", ",", EuroSign} /\ (n \in {1, 2} \/ n >= 4)
       THEN Str(<<number[p]>>)
       ELSE None

\* parse_number: the text passed to float
number_of(number) ==
    LET text == SelectSeq(strip(number), LAMBDA c : c \notin {" ", "'"})
        sep == decimal_separator(text)
    IN IF sep = None THEN SelectSeq(text, LAMBDA c : c \notin {".", ","})
       ELSE IF sep = Str(<<".">>) THEN SelectSeq(text, LAMBDA c : c # ",")
       ELSE IF sep = Str(<<",">>) THEN Replace(SelectSeq(text, LAMBDA c : c # "."), ",", ".")
       ELSE Replace(SelectSeq(text, LAMBDA c : c \notin {".", ","}), EuroSign, ".")

\* round(float(number_str), 2), in hundredths, for a text float takes; a
\* third decimal of 5 or more rounds away from zero (a 5 followed by
\* nothing but zeros, where the binary float decides, is in no text of the
\* model)
round_cents(number_str) ==
    LET body == float_body(number_str)
        dots == Positions(body, ".")
        dot == IF dots = {} THEN Len(body) + 1 ELSE CHOOSE i \in dots : TRUE
        whole == SubSeq(body, 1, dot - 1)
        decimals == SubSeq(body, dot + 1, Len(body)) \o <<"0", "0", "0">>
        up == IF DigitValue(decimals[3]) >= 5 THEN 1 ELSE 0
        cents == 100 * ToInt(whole) + ToInt(SubSeq(decimals, 1, 2)) + up
    IN IF number_str # <<>> /\ number_str[1] = "-" THEN 0 - cents ELSE cents

\* parse_number(number): the float, in hundredths after round(.., 2), or
\* None when there is no number or float raises ValueError
parse_number(number) ==
    IF number \in {None, Str(<<>>)} THEN None
    ELSE IF float_raises(number_of(number[2])) THEN None
    ELSE Num(round_cents(number_of(number[2])))

\* mutant: the value that is not a number is passed on as it is
number_or_none(number_value) == number_value

\* currency_parser: round(number_value, 2) if number_value else 0.0
number_or_zero(number_value) ==
    IF number_value \in {None, Num(0)} THEN Num(0) ELSE number_value

\* currency_parser(amount) of bot/currencies.py: the amount and the code of
\* the currency, or None for the currency
currencies_currency_parser(amount) ==
    <<number_or_zero(parse_number(extract_number(amount))),
      symbol_from_str(extract_currency(amount))>>

\* no parser has been called
NotParsed == [parser |-> "none", raised |-> FALSE, value |-> None]

\* currency_parser(amount) of bot/currencies.py is called with the text
\* given; the ValueError of float is caught in parse_number and no other
\* call of it raises
currencies_parse ==
    /\ parsed = NotParsed
    /\ parsed' = [parser |-> "currencies", raised |-> FALSE,
                  value |-> currencies_currency_parser(given)]
    /\ UNCHANGED <<given, bot, records, has_records, convVars, menuVars, confVars,
                   reply, ret, jobVars, taskVars, outVars>>

\* currency_parser(number_str) of utils.py is called with the text given
utils_parse ==
    /\ parsed = NotParsed
    /\ parsed' = IF currency_parser_raises(given)
                 THEN [parser |-> "utils", raised |-> TRUE, value |-> None]
                 ELSE [parser |-> "utils", raised |-> FALSE,
                       value |-> currency_parser(given)]
    /\ UNCHANGED <<given, bot, records, has_records, convVars, menuVars, confVars,
                   reply, ret, jobVars, taskVars, outVars>>

(* --------------------- bot/record.py, bot/show.py ----------------------- *)
\* user_data of a user the bot has not seen: no key is set.  keys are the
\* keys set; the other fields are the values of those that are
NoBot ==
    [conv |-> "END", keys |-> {}, selected_month_year |-> None, keyboard_type |-> "none",
     choice |-> "none", record |-> <<>>, records |-> <<>>, start_over |-> FALSE,
     reply |-> <<"none">>, handler |-> "none", arg |-> <<>>, raised |-> FALSE, n |-> 0]

\* the keys start sets with setdefault
StartKeys ==
    {"selected_month_year", "keyboard_type", "choice", "record", "records", "start_over"}

\* RecordData: the buttons of the fields of a record
RecordData == {"date", "description", "amount", "account"}

\* the fields of a Record, as model_dump lists them
RecordModelKeys == <<"date", "amount", "currency", "description", "account", "recorded_at">>

\* Record().model_dump(): every field None
EmptyRecordModel == [i \in 1..Len(RecordModelKeys) |-> <<RecordModelKeys[i], None>>]

\* Record.model_validate(record).model_dump() for the record of user_data,
\* which is {} or a dump
record_model(rec) == IF rec = <<>> THEN EmptyRecordModel ELSE rec

\* check_required_fields: the date, the amount and the account are set
check_required_fields(rec) ==
    \A k \in {"date", "amount", "account"} : OGet(rec, k) # None

\* a handler of bot/ has taken an update
Handled(b, handler, conv, message, exception) ==
    [b EXCEPT !.handler = handler, !.arg = <<>>, !.conv = conv, !.reply = message,
              !.raised = exception, !.n = 1 - b.n]

\* what is left alone by the handlers of bot/
botRest == <<given, parsed, records, has_records, convVars, menuVars, confVars, reply,
             ret, jobVars, taskVars, outVars>>

\* RecordHandler.start as the code runs it, for user_data b
start_user_data(b) ==
    [b EXCEPT !.keys = b.keys \cup StartKeys, !.start_over = FALSE]

\* RecordHandler.start for the /record command, an entry point
bot_start ==
    /\ bot.conv = "END"
    /\ bot' = Handled(start_user_data(bot), "start", "INPUT", <<"enter_details">>, FALSE)
    /\ UNCHANGED botRest

\* RecordHandler.input for the button of field f
bot_input(f) ==
    /\ bot.conv = "INPUT"
    /\ LET chosen == [bot EXCEPT !.choice = f]
           shown ==
             IF f = "date"
             THEN [chosen EXCEPT !.keyboard_type = "calendar",
                                 !.selected_month_year =
                                    IF bot.selected_month_year = None
                                    THEN <<"ym", 0>> ELSE bot.selected_month_year]
             ELSE IF f = "account" THEN [chosen EXCEPT !.keyboard_type = "account"]
             ELSE chosen
       IN bot' = Handled(shown, "input", "REPLY", <<"enter", f>>, FALSE)
    /\ UNCHANGED botRest

\* RecordHandler.input_natural_language for a text or a voice message: the
\* call of the OpenAI API fails, answers with a record, or with none
bot_input_natural_language(response) ==
    /\ bot.conv = "INPUT"
    /\ bot' =
        IF response = "error"
        THEN Handled(bot, "input_natural_language", "END", <<"went_wrong">>, FALSE)
        ELSE IF response = "record"
        THEN Handled([bot EXCEPT !.record =
                        OSet(OSet(OSet(record_model(bot.record), "date", Str(Text)),
                                  "amount", Str(Text)), "account", Str(Text))],
                     "input_natural_language", "INPUT", <<"is_this_the_record">>, FALSE)
        ELSE Handled(bot, "input_natural_language", "INPUT", <<"none">>, FALSE)
    /\ UNCHANGED botRest

\* RecordHandler.change_calendar_keyboard for the button of the month
\* before (-1) or after (1)
bot_change_calendar_keyboard(next_or_prev_month) ==
    /\ bot.conv = "REPLY"
    /\ IF bot.selected_month_year = None
       THEN bot' = Handled(bot, "change_calendar_keyboard", "REPLY", <<"none">>, TRUE)
       ELSE LET month == bot.selected_month_year[2] + next_or_prev_month IN
            /\ month \in (0 - MaxMonths)..MaxMonths
            /\ bot' = Handled([bot EXCEPT !.selected_month_year = <<"ym", month>>],
                              "change_calendar_keyboard", "REPLY",
                              <<"calendar", month>>, FALSE)
    /\ UNCHANGED botRest

\* RecordHandler.store: the try block raises before there is a reply_method
\*   a calendar keyboard without a month to show: the tuple is None
\*   a date button while the choice is not the date: the assertion
store_raises(b, query) ==
    \/ b.keyboard_type = "calendar" /\ b.selected_month_year = None
    \/ query /\ b.choice # "date"

\* RecordHandler.store: the record with the field of the choice set
store_record(b) == OSet(record_model(b.record), b.choice, Str(Text))

\* RecordHandler.store for a text (query FALSE) or a callback query with
\* a date (query TRUE) that Record.model_validate accepts (valid) or not
bot_store(query, valid) ==
    /\ bot.conv = "REPLY"
    /\ LET after ==
            IF store_raises(bot, query)
            THEN Handled(bot, "store", "INPUT", <<"none">>, FALSE)
            ELSE IF ~valid
            THEN Handled(bot, "store", "INPUT", <<"not_valid">>, FALSE)
            ELSE Handled([bot EXCEPT !.keyboard_type = "none",
                                     !.record = store_record(bot)],
                         "store", "INPUT", <<"recorded", bot.choice>>, FALSE)
       IN bot' = [after EXCEPT !.arg = <<query, valid>>]
    /\ UNCHANGED botRest

\* RecordHandler.save for the Save button at the minute now
bot_save(now) ==
    /\ bot.conv = "INPUT"
    /\ LET rec == OSet(record_model(bot.record), "recorded_at", Stamp(now)) IN
       IF check_required_fields(rec)
       THEN /\ Len(bot.records) < MaxRecords
            /\ bot' = Handled([bot EXCEPT !.records = Append(bot.records, rec),
                                          !.record = <<>>,
                                          !.choice = "none"],
                              "save", "INPUT", <<"saved">>, FALSE)
       ELSE bot' = Handled(bot, "save", "INPUT", <<"not_valid">>, FALSE)
    /\ UNCHANGED botRest

\* RecordHandler.cancel as the code runs it, for user_data b
cancel_bot_user_data(b) ==
    [b EXCEPT !.keys = b.keys \cup {"selected_month_year"},
              !.selected_month_year = None,
              !.record = <<>>]

\* RecordHandler.cancel for the Cancel button or /cancel, a fallback
bot_cancel ==
    /\ bot.conv # "END"
    /\ bot' = Handled(cancel_bot_user_data(bot), "cancel", "END", <<"cancelled">>, FALSE)
    /\ UNCHANGED botRest

\* RecordHandler.back_to_start for the Back and the OK buttons, a fallback
bot_back_to_start ==
    /\ bot.conv # "END"
    /\ bot' = Handled(start_user_data(bot), "back_to_start", "INPUT",
                      <<"enter_details">>, FALSE)
    /\ UNCHANGED botRest

\* context.user_data["records"] of show_records raises KeyError
show_raises(b) == "records" \notin b.keys

\* ShowHandler.show_records for the /show command
bot_show_records ==
    /\ bot' =
        IF show_raises(bot)
        THEN Handled(bot, "show_records", bot.conv, <<"none">>, TRUE)
        ELSE IF bot.records # <<>>
        THEN Handled(bot, "show_records", bot.conv, <<"you_saved", Len(bot.records)>>,
                     FALSE)
        ELSE Handled(bot, "show_records", bot.conv, <<"no_records">>, FALSE)
    /\ UNCHANGED botRest

(* ---------------------- record.py: conversations ------------------------ *)
\* ret.conv is the conversation handler the handler belongs to, ret.n tells
\* one update from the next
NoReturn == [conv |-> "none", handler |-> "none", state |-> "none", arg |-> <<>>, n |-> 0]
ReturnedIn(conv, handler, state, arg) ==
    [conv |-> conv, handler |-> handler, state |-> state, arg |-> arg, n |-> 1 - ret.n]
ReturnedWith(handler, state, arg) == ReturnedIn("record_handler", handler, state, arg)
Returned(handler, state) == ReturnedWith(handler, state, <<>>)

\* map_to_parent of new_record_handler
new_record_map_to_parent ==
    [s \in {"END", "STOPPING"} |-> IF s = "END" THEN "SELECTING_ACTION" ELSE "END"]

\* the state of a nested conversation after one of its handlers returned
\* new_state: it ends when the state is mapped to the parent
child_state(map_to_parent, new_state) ==
    IF new_state \in DOMAIN map_to_parent THEN "END" ELSE new_state

\* the state of the parent after a handler of the nested conversation
\* returned new_state
parent_state(map_to_parent, parent, new_state) ==
    IF new_state \in DOMAIN map_to_parent THEN map_to_parent[new_state] ELSE parent

(* ------------------------- record.py: handlers -------------------------- *)
\* the fields the model enters while tasks run
EnteredFields == {"reason"}

\* BUTTONS[data].lower() for the four field buttons
RecordFields == {"date", "reason", "amount", "account"}

\* start of record.py and of settings.py: the menu is edited in place when
\* user_data["start_over"] is set and sent as a new message otherwise
start_message(flag) == IF flag THEN "edited" ELSE "sent"

\* mutant: start leaves user_data["start_over"] as it finds it
start_over_kept(flag) == flag

\* start of record.py and of settings.py: user_data["start_over"] = False
start_over_after(flag) == FALSE

\* start(update, context), entered by the /record command: the update has no
\* callback query, editing the menu in place raises AttributeError
start ==
    /\ top = "END"
    /\ IF start_over
       THEN /\ reply' = <<"none">>
            /\ ret' = Returned("start", "raised")
            /\ UNCHANGED <<start_over, top>>
       ELSE /\ start_over' = start_over_after(start_over)
            /\ top' = "SELECTING_ACTION"
            /\ reply' = <<"record_menu", start_message(start_over)>>
            /\ ret' = Returned("start", "SELECTING_ACTION")
    /\ UNCHANGED <<parseVars, records, has_records, record, has_record, sub, menuVars,
                   confVars, jobVars, taskVars, outVars>>

\* new_record(update, context), the entry point of new_record_handler
new_record ==
    /\ top = "SELECTING_ACTION"
    /\ sub = "END"
    /\ record' = IF has_record THEN record ELSE FromKeys
    /\ has_record' = TRUE
    /\ has_records' = TRUE
    /\ sub' = "INPUT"
    /\ reply' = <<"new_record">>
    /\ ret' = ReturnedIn("new_record_handler", "new_record", "INPUT", <<>>)
    /\ UNCHANGED <<parseVars, records, start_over, top, menuVars, confVars, jobVars,
                   taskVars, outVars>>

\* prompt(update, context) for the button of field f
prompt(f) ==
    /\ top = "SELECTING_ACTION"
    /\ sub = "INPUT"
    /\ record' = OSet(record, "choice", Str(f))
    /\ sub' = "REPLY"
    /\ reply' = <<"enter", f>>
    /\ ret' = ReturnedIn("new_record_handler", "prompt", "REPLY", <<>>)
    /\ UNCHANGED <<parseVars, records, has_records, has_record, start_over, top, menuVars,
                   confVars, jobVars, taskVars, outVars>>

\* store(update, context) for the text data: without a choice, and when
\* parse_data raises, the handler raises before it changes or sends anything
store(data) ==
    /\ top = "SELECTING_ACTION"
    /\ sub = "REPLY"
    /\ IF "choice" \notin OKeys(record)
       THEN /\ ret' = ReturnedIn("new_record_handler", "store", "raised", data)
            /\ reply' = <<"none">>
            /\ UNCHANGED <<record, sub>>
       ELSE LET category == OGet(record, "choice")[2] IN
            IF parse_data_raises(category, data)
            THEN /\ ret' = ReturnedIn("new_record_handler", "store", "raised", data)
                 /\ reply' = <<"none">>
                 /\ UNCHANGED <<record, sub>>
            ELSE /\ record' = ODel(OUpdate(record, parse_data(category, data)), "choice")
                 /\ reply' = <<"done", category>>
                 /\ ret' = ReturnedIn("new_record_handler", "store", "INPUT", data)
                 /\ sub' = "INPUT"
    /\ UNCHANGED <<parseVars, records, has_records, has_record, start_over, top, menuVars,
                   confVars, jobVars, taskVars, outVars>>

\* mutant: the record saved replaces the list
save_records_replaced(recs, rec, now) == <<OSet(rec, "recorded_on", Stamp(now))>>

\* mutant: the record is saved without the time of recording
save_records_unstamped(recs, rec, now) == Append(recs, rec)

\* save: records.append(deepcopy(record)) after record["recorded_on"] is set
save_records(recs, rec, now) == Append(recs, OSet(rec, "recorded_on", Stamp(now)))

\* save(update, context) at the minute now
save(now) ==
    /\ top = "SELECTING_ACTION"
    /\ sub = "INPUT"
    /\ LET rec == IF "choice" \in OKeys(record) THEN ODel(record, "choice")
                  ELSE record
       IN IF rec = <<>>
          THEN /\ reply' = <<"empty_record">>
               /\ record' = rec
               /\ UNCHANGED <<records, failed>>
          ELSE /\ Len(records) < MaxPending
               /\ records' = save_records(records, rec, now)
               /\ reply' = <<"saved">>
               /\ record' = <<>>
               /\ failed' = NoFail
    /\ ret' = ReturnedIn("new_record_handler", "save", "INPUT", <<now>>)
    /\ UNCHANGED <<parseVars, has_records, has_record, start_over, top, sub, menuVars,
                   confVars, jobVars, taskVars, ledger, sent, raised>>

\* quick_save: re.match(r'^!\s*(.*)', text) finds nothing
quick_no_match(text) == text = <<>> \/ text[1] # "!"

\* quick_save: match.group(1), what follows the "!" and the white space
\* after it up to the end of that line
quick_group(text) ==
    LET rest == Tail(text)
        inner == Others(rest, Whitespace)
        from == IF inner = {} THEN <<>> ELSE SubSeq(rest, Least(inner), Len(rest))
        breaks == Positions(from, "\n")
    IN IF breaks = {} THEN from ELSE SubSeq(from, 1, Least(breaks) - 1)

\* quick_save: record_data, the fields of the line
quick_record_data(text) ==
    LET fields == split(quick_group(text)) IN [i \in 1..Len(fields) |-> strip(fields[i])]

\* quick_save: the fields zip pairs with ('date', 'reason', 'amount', 'account')
QuickKeys == <<"date", "reason", "amount", "account">>
quick_zip(text) ==
    LET data == quick_record_data(text)
        n == IF Len(data) < Len(QuickKeys) THEN Len(data) ELSE Len(QuickKeys)
    IN [i \in 1..n |-> <<QuickKeys[i], data[i]>>]

\* quick_save raises: match is None, or parse_data raises for a field
quick_save_raises(text) ==
    \/ quick_no_match(text)
    \/ \E i \in 1..Len(quick_zip(text)) :
            parse_data_raises(quick_zip(text)[i][1], quick_zip(text)[i][2])

\* quick_save: the record filled in from the fields
RECURSIVE quick_fill(_, _)
quick_fill(rec, pairs) ==
    IF pairs = <<>> THEN rec
    ELSE quick_fill(OUpdate(rec, parse_data(Head(pairs)[1], Head(pairs)[2])), Tail(pairs))

\* quick_save: the records after the message
quick_records(recs, text, now) ==
    Append(recs, OSet(quick_fill(FromKeys, quick_zip(text)), "recorded_on", Stamp(now)))

\* quick_save(update, context) for a message at the minute now; no
\* conversation takes part
quick_save(text, now) ==
    /\ IF quick_save_raises(text)
       THEN /\ reply' = <<"none">>
            /\ ret' = ReturnedIn("quick_save_handler", "quick_save", "raised", text)
            /\ UNCHANGED <<records, has_records, failed>>
       ELSE /\ Len(records) < MaxPending
            /\ records' = quick_records(records, text, now)
            /\ has_records' = TRUE
            /\ failed' = NoFail
            /\ reply' = <<"quick_saved">>
            /\ ret' = ReturnedIn("quick_save_handler", "quick_save", "None", text)
    /\ UNCHANGED <<parseVars, convVars, menuVars, confVars, jobVars, taskVars, ledger,
                   sent, raised>>

\* back_to_start(update, context) for the Ok button of the saved record,
\* a handler of new_record_handler
back_to_start_ok ==
    /\ top = "SELECTING_ACTION"
    /\ sub = "INPUT"
    /\ start_over' = start_over_after(TRUE)
    /\ reply' = <<"record_menu", start_message(TRUE)>>
    /\ ret' = ReturnedIn("new_record_handler", "back_to_start", "SELECTING_ACTION", <<>>)
    /\ sub' = child_state(new_record_map_to_parent, "SELECTING_ACTION")
    /\ top' = parent_state(new_record_map_to_parent, top, "SELECTING_ACTION")
    /\ UNCHANGED <<parseVars, records, has_records, record, has_record, menuVars,
                   confVars, jobVars, taskVars, outVars>>

\* back_to_start(update, context) for the Back button, a handler of
\* record_handler
back_to_start ==
    /\ top = "SELECTING_ACTION"
    /\ start_over' = start_over_after(TRUE)
    /\ reply' = <<"record_menu", start_message(TRUE)>>
    /\ ret' = Returned("back_to_start", "SELECTING_ACTION")
    /\ UNCHANGED <<parseVars, records, has_records, record, has_record, top, sub, menuVars,
                   confVars, jobVars, taskVars, outVars>>

\* the name show_data looks the job of the user up by
show_job_name(user_id) == <<user_id, "_append_data">>

\* mutant: the records are shown last saved first
shown_records_reversed(recs) ==
    [i \in 1..Len(recs) |-> data_to_str(recs[Len(recs) + 1 - i])]

\* show_data: map(utils.data_to_str, records)
shown_records(recs) == [i \in 1..Len(recs) |-> data_to_str(recs[i])]

\* show_data(update, context)
show_data ==
    /\ top = "SELECTING_ACTION"
    /\ reply' = IF has_records /\ records # <<>>
                THEN <<"records", shown_records(records),
                       IF get_jobs_by_name(jobs, show_job_name(UserId)) # {}
                       THEN "next" ELSE "never">>
                ELSE <<"no_records_yet">>
    /\ ret' = Returned("show_data", "SELECTING_ACTION")
    /\ UNCHANGED <<parseVars, records, has_records, convVars, menuVars, confVars, jobVars,
                   taskVars, outVars>>

\* what a user can want cleared: everything, or the records from a to b
ClearSelectors == {<<"*">>, <<1, 1>>, <<1, 2>>, <<MaxPending + 1, MaxPending + 1>>}

\* clear_data(update, context); selector is what the user wants cleared, the
\* button carries none and the handler reads none
clear_data(selector) ==
    /\ top = "SELECTING_ACTION"
    /\ IF has_records /\ records # <<>>
       THEN /\ reply' = <<"cleared", Len(records)>>
            /\ records' = <<>>
            /\ failed' = NoFail
       ELSE /\ reply' = <<"nothing_to_clear">>
            /\ UNCHANGED <<records, failed>>
    /\ ret' = ReturnedWith("clear_data", "SELECTING_ACTION", selector)
    /\ UNCHANGED <<parseVars, has_records, convVars, menuVars, confVars, jobVars,
                   taskVars, ledger, sent, raised>>

\* mutant: cancel clears the data of the user
cancel_user_data_all(rec, recs) == <<<<>>, <<>>>>

\* cancel: the record and the records it leaves, the record is cleared
cancel_user_data(rec, recs) == <<<<>>, recs>>

\* the state cancel returns
cancel_returns == "STOPPING"

\* cancel(update, context) for the Cancel button, a fallback of
\* new_record_handler
cancel ==
    /\ top = "SELECTING_ACTION"
    /\ sub # "END"
    /\ record' = cancel_user_data(record, records)[1]
    /\ records' = cancel_user_data(record, records)[2]
    /\ reply' = <<"cancelled">>
    /\ ret' = ReturnedIn("new_record_handler", "cancel", cancel_returns, <<>>)
    /\ sub' = child_state(new_record_map_to_parent, cancel_returns)
    /\ top' = parent_state(new_record_map_to_parent, top, cancel_returns)
    /\ UNCHANGED <<parseVars, has_records, has_record, start_over, menuVars,
                   confVars, jobVars, taskVars, outVars>>

\* cancel(update, context) for the /cancel command, a fallback of
\* new_record_handler: the update has no callback query, the handler raises
\* AttributeError after it cleared the record
cancel_command ==
    /\ top = "SELECTING_ACTION"
    /\ sub # "END"
    /\ record' = cancel_user_data(record, records)[1]
    /\ records' = cancel_user_data(record, records)[2]
    /\ reply' = <<"none">>
    /\ ret' = ReturnedIn("new_record_handler", "cancel", "raised", <<>>)
    /\ UNCHANGED <<parseVars, has_records, has_record, start_over, top, sub,
                   menuVars, confVars, jobVars, taskVars, outVars>>

\* stop(update, context) for the Cancel button of the record menu, a handler
\* of record_handler behind new_record_handler
stop ==
    /\ top = "SELECTING_ACTION"
    /\ sub = "END"
    /\ reply' = <<"stopped">>
    /\ ret' = Returned("stop", "END")
    /\ top' = "END"
    /\ UNCHANGED <<parseVars, records, has_records, record, has_record, start_over, sub,
                   menuVars, confVars, jobVars, taskVars, outVars>>

\* stop(update, context) for the /stop command, the fallback of record_handler
stop_command ==
    /\ top = "SELECTING_ACTION"
    /\ reply' = <<"stopped">>
    /\ ret' = Returned("stop", "END")
    /\ top' = "END"
    /\ UNCHANGED <<parseVars, records, has_records, record, has_record, start_over, sub,
                   menuVars, confVars, jobVars, taskVars, outVars>>

(* ------------------- settings.py: time specifications ------------------ *)
\* the time specifications of the examples: one of each form the prompt
\* lists, and texts that are none of them
WhenNow == <<"n", "o", "w">>
WhenSeconds == <<"5">>
WhenTime == <<"1", "0", ":", "3", "0">>
WhenDaily == <<"d", " ", "1", "0", ":", "3", "0">>
WhenWeekly == <<"d", " ", "1", " ", "1", "0", ":", "3", "0">>
WhenSunday == <<"d", " ", "7", " ", "1", "0", ":", "3", "0">>
WhenMonthly == <<"m", " ", "0", "5", " ", "1", "0", ":", "3", "0">>
WhenNone == <<"x">>
WhenEighthDay == <<"d", " ", "8", " ", "1", "0", ":", "3", "0">>
WhenShortDay == <<"m", " ", "5", " ", "1", "0", ":", "3", "0">>
WhenThreeDigits == <<"1", "2", "3">>
WhenLateHour == <<"2", "5", ":", "0", "0">>
WhenTexts ==
    { WhenNow, WhenSeconds, WhenTime, WhenDaily, WhenWeekly, WhenSunday, WhenMonthly,
      WhenNone, WhenEighthDay, WhenShortDay, WhenThreeDigits, WhenLateHour }

\* (?P<hour>\d{2}):(?P<minute>\d{2}) matches text from place k on
TimeAt(text, k) ==
    /\ Len(text) >= k + 4
    /\ {text[k], text[k + 1], text[k + 3], text[k + 4]} \subseteq Digits
    /\ text[k + 2] = ":"

\* \s* from place k on: the place of the first character that is no blank
AfterBlanks(text, k) ==
    Least({j \in k..(Len(text) + 1) : j = Len(text) + 1 \/ text[j] \notin Whitespace})

\* match.groupdict() of a pattern that did not match; -1 is a group that
\* took no part in the match
NoMatch == [form |-> "none", dow |-> -1, day |-> -1, hour |-> -1, minute |-> -1,
            seconds |-> -1]

\* the groups hour and minute of a match whose time starts at place k
TimeMatch(form, text, k) ==
    [NoMatch EXCEPT !.form = form,
                    !.hour = ToInt(SubSeq(text, k, k + 1)),
                    !.minute = ToInt(SubSeq(text, k + 3, k + 4))]

\* once_pattern.match(when_text): now, then HH:MM, then one or two digits,
\* at the start of the text
once_pattern(text) ==
    IF StartsWith(text, <<"n", "o", "w">>) THEN [NoMatch EXCEPT !.form = "now"]
    ELSE IF TimeAt(text, 1) THEN TimeMatch("HH:MM", text, 1)
    ELSE IF Len(text) >= 1 /\ text[1] \in Digits
    THEN [NoMatch EXCEPT !.form = "SS",
                         !.seconds = ToInt(SubSeq(text, 1,
                                        IF Len(text) >= 2 /\ text[2] \in Digits
                                        THEN 2 ELSE 1))]
    ELSE NoMatch

\* daily_pattern after the word of n characters: the day of the week is
\* taken when the rest matches with it, left out when it matches without
daily_after(text, n) ==
    LET k == AfterBlanks(text, n + 1) IN
    IF /\ k <= Len(text)
       /\ text[k] \in Digits
       /\ DigitValue(text[k]) \in 1..7
       /\ TimeAt(text, AfterBlanks(text, k + 1))
    THEN [TimeMatch("weekly", text, AfterBlanks(text, k + 1))
            EXCEPT !.dow = DigitValue(text[k])]
    ELSE IF TimeAt(text, k) THEN TimeMatch("daily", text, k)
    ELSE NoMatch

\* daily_pattern.match(when_text): the word is d, or daily when nothing
\* matches after d
daily_pattern(text) ==
    IF StartsWith(text, <<"d">>) /\ daily_after(text, 1) # NoMatch
    THEN daily_after(text, 1)
    ELSE IF StartsWith(text, <<"d", "a", "i", "l", "y">>) THEN daily_after(text, 5)
    ELSE NoMatch

\* monthly_pattern after the word of n characters
monthly_after(text, n) ==
    IF /\ Len(text) >= n + 4
       /\ text[n + 1] = " "
       /\ {text[n + 2], text[n + 3]} \subseteq Digits
       /\ text[n + 4] = " "
       /\ TimeAt(text, n + 5)
    THEN [TimeMatch("monthly", text, n + 5)
            EXCEPT !.day = ToInt(SubSeq(text, n + 2, n + 3))]
    ELSE NoMatch

\* monthly_pattern.match(when_text)
monthly_pattern(text) ==
    IF StartsWith(text, <<"m">>) /\ monthly_after(text, 1) # NoMatch
    THEN monthly_after(text, 1)
    ELSE IF StartsWith(text, <<"m", "o", "n", "t", "h", "l", "y">>)
    THEN monthly_after(text, 7)
    ELSE NoMatch

\* the match set_custom_schedule goes by: once_pattern, else daily_pattern
\* or monthly_pattern
when_match(when_text) ==
    IF once_pattern(when_text) # NoMatch THEN once_pattern(when_text)
    ELSE IF daily_pattern(when_text) # NoMatch THEN daily_pattern(when_text)
    ELSE monthly_pattern(when_text)

\* the job set_custom_schedule runs for a time specification
schedule_kind(when_text) ==
    LET form == when_match(when_text).form IN
    IF form \in {"now", "SS", "HH:MM"} THEN "once"
    ELSE IF form = "none" THEN "invalid"
    ELSE form

\* dtm.time(hour, minute) raises ValueError for an hour above 23 or a minute
\* above 59, and the cron trigger of run_monthly for a day outside 1..31
when_raises(m) ==
    \/ m.form \in {"HH:MM", "daily", "weekly", "monthly"} /\ (m.hour > 23 \/ m.minute > 59)
    \/ m.form = "monthly" /\ m.day \notin 1..31

\* the arguments of the trigger: when of run_once, time and days of
\* run_daily, day and when of run_monthly
job_when(m) ==
    IF m.form = "now" THEN <<"when", "now">>
    ELSE IF m.form = "SS" THEN <<"when", m.seconds>>
    ELSE IF m.form = "HH:MM" THEN <<"when", m.hour, m.minute>>
    ELSE IF m.form = "daily" THEN <<"time", m.hour, m.minute>>
    ELSE IF m.form = "weekly" THEN <<"days", m.dow - 1, m.hour, m.minute>>
    ELSE <<"day", m.day, m.hour, m.minute>>

\* mutant: the new job is added next to the jobs there are
schedule_job_added(js, j) == js \cup {j}

\* remove_job_if_exists followed by job_queue.run_*: the jobs left
schedule_job(js, j) == run_job(remove_job_if_exists_jobs(js, j.name), j)

(* -------------------- settings.py: conversations ------------------------ *)
\* mutant: no STOPPING in map_to_parent
settings_map_to_parent_no_stopping ==
    [s \in {"END", "SELECTING_ACTION"} |-> "SELECTING_ACTION"]

\* map_to_parent of login_handler, spreadsheet_handler, schedule_handler,
\* accounts_handler and currency_handler: the same for the five
settings_map_to_parent ==
    [s \in {"END", "SELECTING_ACTION", "STOPPING"} |->
        IF s = "STOPPING" THEN "END" ELSE "SELECTING_ACTION"]

\* the conversations of SELECTING_ACTION of settings_handler, in the order
\* settings_handler tries them
Menus == <<"login", "spreadsheet", "schedule", "accounts", "currency">>
MenuNames == {Menus[i] : i \in 1..Len(Menus)}

\* the state of a conversation of the menu
menu_state(m) ==
    CASE m = "login" -> lgn
      [] m = "spreadsheet" -> sps
      [] m = "schedule" -> sch
      [] m = "accounts" -> acc
      [] m = "currency" -> cur

\* the state in which a conversation has a MessageHandler for a text
text_state(m) ==
    CASE m = "login" -> "NEW_LOGIN"
      [] m = "spreadsheet" -> "REPLY"
      [] m = "schedule" -> "INPUT"
      [] m = "accounts" -> "INPUT"
      [] m = "currency" -> "none"

\* the conversations tried before m
Before(m) == {Menus[i] : i \in 1..((CHOOSE k \in 1..Len(Menus) : Menus[k] = m) - 1)}

\* the fallbacks of m take a Cancel, a Back or a /cancel: m is going on and no
\* conversation before it is
TakesFallback(m) ==
    /\ stg = "SELECTING_ACTION"
    /\ menu_state(m) # "END"
    /\ \A k \in Before(m) : menu_state(k) = "END"

\* m takes a text: it waits for one and no conversation before it does
TakesText(m) ==
    /\ stg = "SELECTING_ACTION"
    /\ menu_state(m) = text_state(m)
    /\ \A k \in Before(m) : menu_state(k) # text_state(k)

\* conversation m is in state s, the others where they were
SetMenu(m, s) ==
    /\ lgn' = IF m = "login" THEN s ELSE lgn
    /\ sps' = IF m = "spreadsheet" THEN s ELSE sps
    /\ sch' = IF m = "schedule" THEN s ELSE sch
    /\ acc' = IF m = "accounts" THEN s ELSE acc
    /\ cur' = IF m = "currency" THEN s ELSE cur

\* a handler of conversation m returned new_state for the text arg: the
\* state of m and of settings_handler after it
returns_for(m, handler, new_state, arg) ==
    /\ SetMenu(m, child_state(settings_map_to_parent, new_state))
    /\ stg' = parent_state(settings_map_to_parent, stg, new_state)
    /\ ret' = ReturnedIn(m, handler, new_state, arg)

\* a handler of conversation m returned new_state
returns(m, handler, new_state) == returns_for(m, handler, new_state, <<>>)

\* a handler of conversation m raised: no state changes
raises(m, handler) ==
    /\ ret' = ReturnedIn(m, handler, "raised", <<>>)
    /\ reply' = <<"none">>
    /\ UNCHANGED <<parseVars, stg, sch, otherMenus>>

\* start(update, context) of settings.py, entered by the /settings command
settings_start ==
    /\ stg = "END"
    /\ IF start_over
       THEN /\ reply' = <<"none">>
            /\ ret' = ReturnedIn("settings_handler", "start", "raised", <<>>)
            /\ UNCHANGED <<start_over, stg>>
       ELSE /\ start_over' = start_over_after(start_over)
            /\ stg' = "SELECTING_ACTION"
            /\ reply' = <<"settings_menu", start_message(start_over)>>
            /\ ret' = ReturnedIn("settings_handler", "start", "SELECTING_ACTION", <<>>)
    /\ UNCHANGED <<parseVars, records, has_records, record, has_record, top, sub, sch,
                   otherMenus, confVars, jobVars, taskVars, outVars>>

\* back_to_start(update, context) of settings.py for a button that carries
\* END, the last handler of SELECTING_ACTION of settings_handler
settings_back_to_start ==
    /\ stg = "SELECTING_ACTION"
    /\ start_over' = start_over_after(TRUE)
    /\ reply' = <<"settings_menu", start_message(TRUE)>>
    /\ ret' = ReturnedIn("settings_handler", "back_to_start", "SELECTING_ACTION", <<>>)
    /\ UNCHANGED <<parseVars, records, has_records, record, has_record, top, sub, menuVars,
                   confVars, jobVars, taskVars, outVars>>

\* stop(update, _) of settings.py for the Exit button of the settings menu,
\* a fallback of settings_handler: no conversation of the menu takes it
settings_stop ==
    /\ stg = "SELECTING_ACTION"
    /\ \A m \in MenuNames : menu_state(m) = "END"
    /\ reply' = <<"stopped">>
    /\ stg' = "END"
    /\ ret' = ReturnedIn("settings_handler", "stop", "END", <<>>)
    /\ UNCHANGED <<parseVars, records, has_records, convVars, sch, otherMenus, confVars,
                   jobVars, taskVars, outVars>>

\* stop(update, _) of settings.py for the /stop command
settings_stop_command ==
    /\ stg = "SELECTING_ACTION"
    /\ reply' = <<"stopped">>
    /\ stg' = "END"
    /\ ret' = ReturnedIn("settings_handler", "stop", "END", <<>>)
    /\ UNCHANGED <<parseVars, records, has_records, convVars, sch, otherMenus, confVars,
                   jobVars, taskVars, outVars>>

\* back_to_start(update, context) of settings.py, a fallback of conversation m
menu_back_to_start(m) ==
    /\ TakesFallback(m)
    /\ start_over' = start_over_after(TRUE)
    /\ reply' = <<"settings_menu", start_message(TRUE)>>
    /\ returns(m, "back_to_start", "SELECTING_ACTION")
    /\ UNCHANGED <<parseVars, records, has_records, record, has_record, top, sub,
                   confVars, jobVars, taskVars, outVars>>

\* cancel(update, _) of settings.py, a fallback of conversation m, for the
\* Cancel button and for the /cancel command
menu_cancel(m) ==
    /\ TakesFallback(m)
    /\ reply' = <<"settings_cancelled">>
    /\ returns(m, "cancel", "STOPPING")
    /\ UNCHANGED <<parseVars, records, has_records, convVars, confVars, jobVars,
                   taskVars, outVars>>

(* --------------------- settings.py: login handlers ---------------------- *)
\* oauth(first_login=True) without a code: the client secret file is read
\* and the authorization URL returned, or the file is not there
FlowOutcomes == {"ok", "FileNotFoundError"}

\* oauth(first_login=True, code=code): the token is fetched and stored, or
\* the client secret file is not there, or fetch_token refuses the code
CodeOutcomes == {"ok", "FileNotFoundError", "Exception"}

\* start_login: auth_data with the token file of the user
with_token_file(auth_data) ==
    IF "token_file" \in DOMAIN auth_data THEN auth_data
    ELSE DictSet(auth_data, "token_file", Str(<<"f">>))

\* oauth(first_login=True): user_data["auth_type"] = "user_account"
first_login(auth_data) == DictSet(auth_data, "auth_type", Str(<<"user_account">>))

\* start_login(update, context); flow is what the new OAuth flow does
start_login(flow) ==
    /\ stg = "SELECTING_ACTION"
    /\ lgn = "END"
    /\ IF ~check_auth(with_token_file(auth))
       THEN /\ auth' = first_login(with_token_file(auth))
            /\ IF flow = "ok"
               THEN /\ reply' = <<"authorization_url">>
                    /\ returns("login", "start_login", "NEW_LOGIN")
               ELSE raises("login", "start_login")
       ELSE /\ flow = "ok"
            /\ auth' = with_token_file(auth)
            /\ reply' = <<"already_logged_in">>
            /\ returns("login", "start_login", "EDIT_LOGIN")
    /\ UNCHANGED <<parseVars, records, has_records, convVars, token_file_exists,
                   spreadsheet, prefVars, jobVars, taskVars, outVars>>

\* store_auth_code(update, context) for the code sent; outcome is what oauth
\* does with it
store_auth_code(outcome) ==
    /\ TakesText("login")
    /\ IF outcome = "ok"
       THEN /\ auth' = DictSet(DictSet(DictSet(first_login(auth),
                            "creds", Str(<<"c">>)),
                            "token_file", auth["token_file"]),
                            "auth_is_done", Bool(TRUE))
            /\ token_file_exists' = TRUE
            /\ reply' = <<"token_saved">>
            /\ returns("login", "store_auth_code", "END")
       ELSE /\ auth' = first_login(auth)
            /\ UNCHANGED token_file_exists
            /\ raises("login", "store_auth_code")
    /\ UNCHANGED <<parseVars, records, has_records, convVars, spreadsheet, prefVars,
                   jobVars, taskVars, outVars>>

\* reset_login(update, context)
reset_login ==
    /\ stg = "SELECTING_ACTION"
    /\ lgn = "EDIT_LOGIN"
    /\ token_file_exists' = FALSE
    /\ auth' = EmptyDict
    /\ reply' = <<"login_reset">>
    /\ returns("login", "reset_login", "END")
    /\ UNCHANGED <<parseVars, records, has_records, convVars, spreadsheet, prefVars,
                   jobVars, taskVars, outVars>>

\* show_login(update, context)
show_login ==
    /\ stg = "SELECTING_ACTION"
    /\ lgn = "EDIT_LOGIN"
    /\ reply' = <<"login_data", check_auth(auth), check_spreadsheet(spreadsheet)>>
    /\ spreadsheet' = check_spreadsheet_data(spreadsheet)
    /\ returns("login", "show_login", "END")
    /\ UNCHANGED <<parseVars, records, has_records, convVars, auth, token_file_exists,
                   prefVars, jobVars, taskVars, outVars>>

(* ------------------ settings.py: spreadsheet handlers ------------------- *)
\* the buttons of the spreadsheet menu: choice.lower().replace(" ", "_")
SpreadsheetChoices == {"id", "sheet_name"}

\* start_spreadsheet(update, context)
start_spreadsheet ==
    /\ stg = "SELECTING_ACTION"
    /\ sps = "END"
    /\ reply' = <<"spreadsheet_menu">>
    /\ returns("spreadsheet", "start_spreadsheet", "INPUT")
    /\ UNCHANGED <<parseVars, records, has_records, convVars, confVars, jobVars,
                   taskVars, outVars>>

\* prompt_spreadsheet(update, context) for the button pressed
prompt_spreadsheet(choice) ==
    /\ stg = "SELECTING_ACTION"
    /\ sps = "INPUT"
    /\ spreadsheet' = DictSet(spreadsheet, "choice", Str(<<choice>>))
    /\ reply' = <<"set_the", choice>>
    /\ returns("spreadsheet", "prompt_spreadsheet", "REPLY")
    /\ UNCHANGED <<parseVars, records, has_records, convVars, auth, token_file_exists,
                   prefVars, jobVars, taskVars, outVars>>

\* set_spreadsheet(update, context) for the text sent
set_spreadsheet(data) ==
    /\ TakesText("spreadsheet")
    /\ LET choice == spreadsheet["choice"][2][1] IN
        /\ spreadsheet' = DictDel(DictSet(spreadsheet, choice, Str(data)), "choice")
        /\ reply' = <<"has_been_set", choice>>
    /\ returns("spreadsheet", "set_spreadsheet", "INPUT")
    /\ UNCHANGED <<parseVars, records, has_records, convVars, auth, token_file_exists,
                   prefVars, jobVars, taskVars, outVars>>

\* up_one_level(update, context), a fallback of spreadsheet_handler
up_one_level ==
    /\ stg = "SELECTING_ACTION"
    /\ sps # "END"
    /\ reply' = <<"spreadsheet_menu">>
    /\ returns("spreadsheet", "up_one_level", "INPUT")
    /\ UNCHANGED <<parseVars, records, has_records, convVars, confVars, jobVars,
                   taskVars, outVars>>

(* ------------------- settings.py: accounts handlers --------------------- *)
\* the texts sent for the accounts: all erased, one added, one or two set
AccountTexts ==
    { <<"c", "l", "e", "a", "r">>, <<"+", "a">>, <<"b">>, <<"a", ",", "b">> }

\* re.match(r"(remove|clear|erase)", text, re.IGNORECASE)
erases(text) ==
    \/ StartsWith(text, <<"r", "e", "m", "o", "v", "e">>)
    \/ StartsWith(text, <<"c", "l", "e", "a", "r">>)
    \/ StartsWith(text, <<"e", "r", "a", "s", "e">>)

\* set_accounts: the accounts after the text
set_accounts_list(old, text) ==
    IF erases(text) THEN <<>>
    ELSE IF text[1] = "+" THEN old \o split(Tail(text))
    ELSE split(text)

\* get_accounts(update, context)
get_accounts ==
    /\ stg = "SELECTING_ACTION"
    /\ acc = "END"
    /\ reply' = <<"accounts", accounts>>
    /\ returns("accounts", "get_accounts", "SET_ACCOUNTS")
    /\ UNCHANGED <<parseVars, records, has_records, convVars, confVars, jobVars,
                   taskVars, outVars>>

\* set_accounts(update, context) for the Add/Modify button
prompt_accounts ==
    /\ stg = "SELECTING_ACTION"
    /\ acc = "SET_ACCOUNTS"
    /\ reply' = <<"enter_accounts">>
    /\ returns("accounts", "set_accounts", "INPUT")
    /\ UNCHANGED <<parseVars, records, has_records, convVars, confVars, jobVars,
                   taskVars, outVars>>

\* set_accounts(update, context) for the text sent
set_accounts(text) ==
    /\ TakesText("accounts")
    /\ Len(set_accounts_list(accounts, text)) <= MaxAccounts
    /\ accounts' = set_accounts_list(accounts, text)
    /\ reply' = IF erases(text) THEN <<"accounts_removed", Len(accounts)>>
                ELSE <<"accounts_saved", Len(accounts')>>
    /\ returns("accounts", "set_accounts", "SET_ACCOUNTS")
    /\ UNCHANGED <<parseVars, records, has_records, convVars, auth, token_file_exists,
                   spreadsheet, default_cur, jobVars, taskVars, outVars>>

(* ------------------- settings.py: currency handlers --------------------- *)
\* the buttons of the currency menu: set(CURRENCIES.values()) and Reset
CurrencyButtons == {CURRENCIES[c] : c \in DOMAIN CURRENCIES} \cup {<<"RESET">>}

\* get_preferred_currency(update, context)
get_preferred_currency ==
    /\ stg = "SELECTING_ACTION"
    /\ cur = "END"
    /\ reply' = <<"default_currency", default_cur>>
    /\ returns("currency", "get_preferred_currency", "INPUT")
    /\ UNCHANGED <<parseVars, records, has_records, convVars, confVars, jobVars,
                   taskVars, outVars>>

\* set_preferred_currency(update, context) for the button pressed; Reset is
\* taken by reset_login when the login menu waits for it
set_preferred_currency(data) ==
    /\ stg = "SELECTING_ACTION"
    /\ cur = "INPUT"
    /\ data = <<"RESET">> => lgn # "EDIT_LOGIN"
    /\ default_cur' = IF data = <<"RESET">> THEN None ELSE Str(data)
    /\ reply' = <<"default_currency_set", default_cur'>>
    /\ returns("currency", "set_preferred_currency", "INPUT")
    /\ UNCHANGED <<parseVars, records, has_records, convVars, auth, token_file_exists,
                   spreadsheet, accounts, jobVars, taskVars, outVars>>

(* ------------------- settings.py: schedule handlers --------------------- *)
\* start_schedule(update, context)
start_schedule ==
    /\ stg = "SELECTING_ACTION"
    /\ sch = "END"
    /\ reply' = <<"schedule_menu",
                  IF get_jobs_by_name(jobs, job_name(UserId)) # {} THEN "next" ELSE "never">>
    /\ returns("schedule", "start_schedule", "SET_SCHEDULE")
    /\ UNCHANGED <<parseVars, records, has_records, convVars, confVars, jobVars,
                   taskVars, outVars>>

\* set_default_schedule(update, context)
set_default_schedule ==
    /\ stg = "SELECTING_ACTION"
    /\ sch = "SET_SCHEDULE"
    /\ nsched < MaxSched
    /\ nsched' = nsched + 1
    /\ jobs' = schedule_job(jobs, NewJob("daily", TRUE, nsched + 1))
    /\ reply' = <<"scheduled", "daily">>
    /\ returns("schedule", "set_default_schedule", "STOPPING")
    /\ UNCHANGED <<parseVars, records, has_records, convVars, confVars, taskVars, outVars>>

\* prompt_custom_schedule(update, context)
prompt_custom_schedule ==
    /\ stg = "SELECTING_ACTION"
    /\ sch = "SET_SCHEDULE"
    /\ reply' = <<"enter_schedule">>
    /\ returns("schedule", "prompt_custom_schedule", "INPUT")
    /\ UNCHANGED <<parseVars, records, has_records, convVars, confVars, jobVars,
                   taskVars, outVars>>

\* set_custom_schedule(update, context) for the text when_text
set_custom_schedule(when_text) ==
    /\ TakesText("schedule")
    /\ LET kind == schedule_kind(when_text)
           m == when_match(when_text) IN
       IF kind = "invalid"
       THEN /\ jobs' = remove_job_if_exists_jobs(jobs, job_name(UserId))
            /\ reply' = <<"invalid_schedule">>
            /\ returns_for("schedule", "set_custom_schedule", "INPUT", when_text)
            /\ UNCHANGED nsched
       ELSE IF when_raises(m)
       THEN /\ jobs' = remove_job_if_exists_jobs(jobs, job_name(UserId))
            /\ reply' = <<"none">>
            /\ ret' = ReturnedIn("schedule", "set_custom_schedule", "raised", when_text)
            /\ UNCHANGED <<nsched, stg, sch, otherMenus>>
       ELSE /\ nsched < MaxSched
            /\ nsched' = nsched + 1
            /\ jobs' = schedule_job(jobs, JobAt(kind, kind # "once", nsched + 1,
                                                job_when(m)))
            /\ reply' = <<"scheduled", kind>>
            /\ returns_for("schedule", "set_custom_schedule", "STOPPING", when_text)
    /\ UNCHANGED <<parseVars, records, has_records, convVars, confVars, taskVars, outVars>>

\* remove_schedule(update, context)
remove_schedule ==
    /\ stg = "SELECTING_ACTION"
    /\ sch = "SET_SCHEDULE"
    /\ reply' = IF remove_job_if_exists(jobs, job_name(UserId))
                THEN <<"schedule_removed">> ELSE <<"schedule_not_found">>
    /\ jobs' = remove_job_if_exists_jobs(jobs, job_name(UserId))
    /\ returns("schedule", "remove_schedule", "INPUT")
    /\ UNCHANGED <<parseVars, records, has_records, convVars, confVars, nsched,
                   taskVars, outVars>>

\* back_to_start(update, context) of settings.py, a fallback of schedule_handler
schedule_back == menu_back_to_start("schedule")

\* cancel(update, _) of settings.py, a fallback of schedule_handler
schedule_cancel == menu_cancel("schedule")

(* --------------------------- specification ------------------------------ *)
\* the states of user_data["auth"] the login flow leaves
AuthNone == EmptyDict
AuthStarted == DictSet(DictSet(EmptyDict, "token_file", Str(<<"f">>)),
                       "auth_type", Str(<<"user_account">>))
AuthDone == DictSet(DictSet(AuthStarted, "creds", Str(<<"c">>)),
                    "auth_is_done", Bool(TRUE))

\* the states of user_data["spreadsheet"] the spreadsheet menu leaves
SheetNone == EmptyDict
SheetId == DictSet(EmptyDict, "id", Str(<<"i">>))
SheetBoth == DictSet(SheetId, "sheet_name", Str(<<"s">>))

\* no conversation going on
InitConversations ==
    /\ start_over = FALSE
    /\ top = "END"
    /\ sub = "END"
    /\ stg = "END"
    /\ lgn = "END"
    /\ sps = "END"
    /\ sch = "END"
    /\ acc = "END"
    /\ cur = "END"
    /\ reply = <<"none">>
    /\ ret = NoReturn

\* a user the bot has not seen: nothing saved, nothing entered
InitSession ==
    /\ InitConversations
    /\ records = <<>>
    /\ has_records = FALSE
    /\ record = <<>>
    /\ has_record = FALSE

\* no accounts and no default currency
InitPreferences ==
    /\ accounts = <<>>
    /\ default_cur = None

InitSettings ==
    /\ auth \in {AuthNone, AuthStarted, AuthDone}
    /\ token_file_exists = (auth = AuthDone)
    /\ spreadsheet \in {SheetNone, SheetId, SheetBoth}
    /\ InitPreferences

\* no amount has been given to a parser
InitAmount ==
    /\ given = <<>>
    /\ parsed = NotParsed
    /\ bot = NoBot

\* no task runs, the sheet is empty
InitTasks ==
    /\ pc = [t \in Threads |-> "idle"]
    /\ ctx = [t \in Threads |-> NoJob]
    /\ begun = [t \in Threads |-> <<>>]
    /\ vals = [t \in Threads |-> <<>>]
    /\ res = [t \in Threads |-> "none"]
    /\ ledger = <<>>
    /\ sent = NoMsg
    /\ raised = FALSE
    /\ failed = NoFail

Init ==
    /\ InitSession
    /\ InitSettings
    /\ InitTasks
    /\ jobs = {}
    /\ nsched = 0
    /\ InitAmount

RecordActions ==
    \/ start
    \/ new_record
    \/ \E f \in EnteredFields : prompt(f)
    \/ \E data \in Texts : store(data)
    \/ \E now \in Times : save(now)
    \/ back_to_start_ok
    \/ back_to_start
    \/ show_data
    \/ \E selector \in ClearSelectors : clear_data(selector)
    \/ cancel
    \/ cancel_command
    \/ stop
    \/ stop_command

ScheduleActions ==
    \/ settings_start
    \/ start_schedule
    \/ set_default_schedule
    \/ prompt_custom_schedule
    \/ \E w \in WhenTexts : set_custom_schedule(w)
    \/ remove_schedule
    \/ schedule_back
    \/ schedule_cancel

SettingsActions ==
    \/ settings_start
    \/ settings_back_to_start
    \/ settings_stop
    \/ settings_stop_command
    \/ \E m \in MenuNames : menu_back_to_start(m)
    \/ \E m \in MenuNames : menu_cancel(m)
    \/ \E flow \in FlowOutcomes : start_login(flow)
    \/ \E outcome \in CodeOutcomes : store_auth_code(outcome)
    \/ reset_login
    \/ show_login
    \/ start_spreadsheet
    \/ \E choice \in SpreadsheetChoices : prompt_spreadsheet(choice)
    \/ \E data \in Texts : set_spreadsheet(data)
    \/ up_one_level
    \/ get_accounts
    \/ prompt_accounts
    \/ \E text \in AccountTexts : set_accounts(text)
    \/ get_preferred_currency
    \/ \E data \in CurrencyButtons : set_preferred_currency(data)
    \/ start_schedule
    \/ set_default_schedule
    \/ prompt_custom_schedule
    \/ \E w \in WhenTexts : set_custom_schedule(w)
    \/ remove_schedule

TaskActions ==
    \/ \E j \in jobs : Fire(j)
    \/ \E j \in jobs : Skip(j)
    \/ \E t \in Threads : Begin(t)
    \/ \E t \in Threads : CallOAuth(t)
    \/ \E t \in Threads : ReturnOAuth(t)
    \/ \E t \in Threads : CallAppend(t)
    \/ \E t \in Threads : ReturnAppend(t)

Next ==
    \/ RecordActions
    \/ ScheduleActions
    \/ SettingsActions
    \/ TaskActions

Spec == Init /\ [][Next]_vars

\* The /record conversation against the scheduled task: the default
\* schedule has been set
InitFlush ==
    /\ InitSession
    /\ InitSettings
    /\ InitTasks
    /\ jobs = {NewJob("daily", TRUE, 1)}
    /\ nsched = 1
    /\ InitAmount

NextFlush ==
    \/ RecordActions
    \/ TaskActions

SpecFlush == InitFlush /\ [][NextFlush]_vars

\* The schedule menu against the scheduled task: the user has saved one
\* record, or none
SavedRecord == OSet(FromKeys, "recorded_on", Stamp(1))

InitSched ==
    /\ InitConversations
    /\ InitTasks
    /\ \/ /\ auth = AuthDone
          /\ spreadsheet = SheetBoth
          /\ records \in {<<>>, <<SavedRecord>>}
       \/ /\ auth = AuthDone
          /\ spreadsheet = SheetId
          /\ records = <<SavedRecord>>
       \/ /\ auth = AuthNone
          /\ spreadsheet = SheetNone
          /\ records = <<SavedRecord>>
    /\ has_records = TRUE
    /\ record = <<>>
    /\ has_record = TRUE
    /\ token_file_exists = (auth = AuthDone)
    /\ InitPreferences
    /\ jobs = {}
    /\ nsched = 0
    /\ InitAmount

NextSched ==
    \/ ScheduleActions
    \/ TaskActions

SpecSched == InitSched /\ [][NextSched]_vars

\* The /record conversation alone, the amount and the reason being entered
AmountText == <<"-", "5", "0", " ", "u", "s", "d">>
SavedFields == {"amount", "reason"}
SavedTexts == {Text, AmountText}

\* a user the bot has not seen, who has set nothing
InitIdle ==
    /\ InitSession
    /\ InitTasks
    /\ auth = AuthNone
    /\ token_file_exists = FALSE
    /\ spreadsheet = SheetNone
    /\ InitPreferences
    /\ jobs = {}
    /\ nsched = 0

InitRecord ==
    /\ InitIdle
    /\ InitAmount

NextRecord ==
    \/ start
    \/ new_record
    \/ \E f \in SavedFields : prompt(f)
    \/ \E data \in SavedTexts : store(data)
    \/ \E now \in Times : save(now)
    \/ back_to_start_ok
    \/ back_to_start
    \/ show_data
    \/ \E selector \in ClearSelectors : clear_data(selector)
    \/ cancel
    \/ cancel_command
    \/ stop
    \/ stop_command

SpecRecord == InitRecord /\ [][NextRecord]_vars

\* Entering the fields of a record: every field, texts that parse and
\* texts that do not
StoreTexts ==
    { Text, AmountText,
      <<"3", "/", "4">>,
      <<"4", "/", "1", "3">>,
      <<"1", "3", "/", "1", "4">> }

NextEntry ==
    \/ start
    \/ new_record
    \/ \E f \in RecordFields : prompt(f)
    \/ \E data \in StoreTexts : store(data)
    \/ cancel
    \/ cancel_command
    \/ stop
    \/ stop_command

SpecEntry == InitRecord /\ [][NextEntry]_vars

\* Quick records next to the /record conversation: messages of one line
\* and of two, with four fields and with fewer, with a date that does not
\* parse and without the "!"
QuickTexts ==
    { <<"!", "3", "/", "4", ",", "a", ",", "-", "5", "u", ",", "b">>,
      <<"!", "3", "/", "4", ",", "a", ",", "9", ",", "b", "\n",
        "4", "/", "5", ",", "a", ",", "9", ",", "b">>,
      <<"!", " ", "3", "/", "4", ",", " ", "a">>,
      <<"!", "x", ",", "a">>,
      <<"3", "/", "4", ",", "a">> }

NextQuick ==
    \/ start
    \/ new_record
    \/ \E f \in EnteredFields : prompt(f)
    \/ \E data \in Texts : store(data)
    \/ cancel
    \/ stop
    \/ \E text \in QuickTexts, now \in Times : quick_save(text, now)
    \/ \E selector \in {<<"*">>} : clear_data(selector)

SpecQuick == InitRecord /\ [][NextQuick]_vars

\* The amount parsers by themselves: a text is given and one of the parsers
\* is called with it.  The texts are every text of at most MaxAmountLen of
\* the characters of numbers, the amounts with the mark of a currency
\* after them, and the amounts the tests and the documentation name.
AmountChars == {"-", "1", "0", ".", ",", "'", " ", EuroSign, "%"}
ShortAmounts == UNION {[1..n -> AmountChars] : n \in 0..MaxAmountLen}

\* text.upper() and text.lower()
Uppered(text) == [i \in 1..Len(text) |-> upper(text[i])]
Lowered(text) == [i \in 1..Len(text) |-> lower(text[i])]

\* the marks of currency i: its code, its symbol, its aliases and the first
\* letter of its code, in upper and in lower case
MarksOf(i) ==
    LET c == currencies_CURRENCIES[i]
        words == {c.code, c.symbol, <<c.code[1]>>} \cup c.aliases
    IN words \cup {Uppered(w) : w \in words} \cup {Lowered(w) : w \in words}

\* numbers, with their values in hundredths
Numbers == {[text |-> <<"-", "1", "0">>, cents |-> -1000], [text |-> <<"9">>, cents |-> 900]}

\* a number, a space or none, and the mark of a currency
MarkedAmounts ==
    UNION {{[text |-> number.text \o gap \o mark, cents |-> number.cents,
             code |-> currencies_CURRENCIES[i].code] :
                number \in Numbers, gap \in {<<>>, <<" ">>}, mark \in MarksOf(i)} :
           i \in 1..Len(currencies_CURRENCIES)}

\* the amounts with a currency of tests/test_currencies.py, with the value
\* in hundredths and the code that are expected
MarkedExamples ==
    { [text |-> <<"-", "1", "0", "e">>, cents |-> -1000, code |-> <<"E", "U", "R">>],
      [text |-> <<"9", "9", "$">>, cents |-> 9900, code |-> <<"U", "S", "D">>],
      [text |-> <<"9", "u", "s", "d">>, cents |-> 900, code |-> <<"U", "S", "D">>],
      [text |-> <<"-", "6", "6", "6", " ", "c">>, cents |-> -66600, code |-> <<"C", "H", "F">>],
      [text |-> <<"1", "0", "0", "0", " ", "C", "H", "F">>, cents |-> 100000, code |-> <<"C", "H", "F">>],
      [text |-> <<"-", "1", ",", "0", "0", "0", ".", "0", "1", " ", EuroSign>>, cents |-> -100001, code |-> <<"E", "U", "R">>],
      [text |-> <<PoundSign, "1", "'", "0", "0", "9">>, cents |-> 100900, code |-> <<"G", "B", "P">>] }

\* the amounts without a currency of tests/test_currencies.py; the number
\* -1000.00 is given as str(-1000.00)
PlainExamples ==
    { [text |-> <<"1", ",", "0", "0", "0", ".", "0", "0">>, cents |-> 100000],
      [text |-> <<"-", "1", "0", "0", "0", ".", "0">>, cents |-> -100000],
      [text |-> <<"1", "0", "0">>, cents |-> 10000] }

\* amounts with a separator of thousands, of decimals and of both
SeparatorExamples ==
    { [text |-> <<"1", ",", "0", "0", "0">>, cents |-> 100000],
      [text |-> <<"1", ".", "0", "0", "0">>, cents |-> 100000],
      [text |-> <<"1", ",", "0", "0">>, cents |-> 100],
      [text |-> <<"1", ".", "0", "0">>, cents |-> 100],
      [text |-> <<"1", ".", "0", "0", "0", ",", "5", "0">>, cents |-> 100050],
      [text |-> <<"1", ",", "0", "0", "0", ".", "5", "0">>, cents |-> 100050] }

\* amounts of digits with a separator and one or two decimals after it, with
\* a separator and a group of three digits after it, and with both, the two
\* separators being the point and the comma either way; with their values
Wholes == {<<"1">>, <<"1", "0">>}
Decimals == {<<"0">>, <<"1">>, <<"0", "0">>, <<"0", "1">>, <<"1", "0">>}
Groups == {<<"0", "0", "0">>, <<"0", "0", "1">>, <<"1", "0", "0">>}
Separators == {".", ","}
Hundredths(decimals) == ToInt(SubSeq(decimals \o <<"0">>, 1, 2))
SeparatedAmounts ==
    {[text |-> w \o <<sep>> \o d, cents |-> 100 * ToInt(w) + Hundredths(d)] :
        w \in Wholes, sep \in Separators, d \in Decimals}
    \cup {[text |-> w \o <<sep>> \o g, cents |-> 100 * ToInt(w \o g)] :
        w \in Wholes, sep \in Separators, g \in Groups}
    \cup {[text |-> w \o <<sep>> \o g \o <<CHOOSE other \in Separators : other # sep>> \o d,
           cents |-> 100 * ToInt(w \o g) + Hundredths(d)] :
        w \in Wholes, sep \in Separators, g \in Groups, d \in Decimals}

\* amounts with the euro sign for the decimal separator, and with a sign
EuroExamples ==
    { <<"1", " ", "0", "0", "0", EuroSign, "5", "0">>,
      <<"-", "1", " ", "0", "0", "0", EuroSign, "5", "0">>,
      <<"1", EuroSign, "5", "0">>,
      <<"-", "1", EuroSign, "5", "0">> }

\* the texts an amount parser is given
AmountTexts ==
    ShortAmounts \cup EuroExamples
    \cup {a.text : a \in MarkedAmounts \cup MarkedExamples}
    \cup {a.text : a \in PlainExamples \cup SeparatorExamples \cup SeparatedAmounts}

InitAmounts ==
    /\ InitIdle
    /\ given \in AmountTexts
    /\ parsed = NotParsed
    /\ bot = NoBot

NextAmounts ==
    \/ currencies_parse
    \/ utils_parse

SpecAmounts == InitAmounts /\ [][NextAmounts]_vars

\* The conversations and the conversations inside them: /record with its
\* new record, /settings with the five conversations of its menu.
\* the buttons under the last message of the bot, by the conversation
\* they belong to: entry_inline_kb and record_inline_kb of record.py, the
\* keyboards of settings.py, and the single buttons of the replies
keyboard(message) ==
    CASE message[1] = "record_menu" ->
            {"record.NEW", "record.SHOW", "record.CLEAR", "record.CANCEL"}
      [] message[1] \in {"new_record", "done", "empty_record"} ->
            {"record.DATE", "record.REASON", "record.AMOUNT", "record.ACCOUNT",
             "record.SAVE", "record.CANCEL"}
      [] message[1] = "saved" -> {"record.END"}
      [] message[1] \in {"records", "no_records_yet", "cleared", "nothing_to_clear"} ->
            {"record.BACK"}
      [] message[1] = "settings_menu" ->
            {"LOGIN", "SPREADSHEET", "SCHEDULE", "ACCOUNTS", "CURRENCY", "CANCEL"}
      [] message[1] = "already_logged_in" -> {"RESET", "SHOW", "BACK"}
      [] message[1] \in {"token_saved", "login_reset", "login_data"} -> {"END"}
      [] message[1] = "spreadsheet_menu" -> {"ID", "SHEET_NAME", "BACK"}
      [] message[1] = "has_been_set" -> {"UP_ONE_LEVEL"}
      [] message[1] = "schedule_menu" ->
            {"DEFAULT_SCHEDULE", "CUSTOM_SCHEDULE", "REMOVE_SCHEDULE", "BACK"}
      [] message[1] \in {"schedule_removed", "schedule_not_found"} -> {"BACK"}
      [] message[1] = "accounts" -> {"MODIFY_ACCOUNTS", "BACK"}
      [] message[1] \in {"accounts_saved", "accounts_removed"} -> {"BACK"}
      [] message[1] = "default_currency" -> {"CURRENCY_CODE", "RESET", "BACK"}
      [] message[1] = "default_currency_set" -> {"BACK"}
      [] OTHER -> {}

\* the user can press the button: it is under the last message
Shown(button) == button \in keyboard(reply)

InitMenus ==
    /\ InitSession
    /\ InitTasks
    /\ auth = AuthNone
    /\ token_file_exists = FALSE
    /\ spreadsheet = SheetNone
    /\ InitPreferences
    /\ jobs = {}
    /\ nsched = 0
    /\ InitAmount

\* the texts the user sends for the accounts and for the schedule
MenuAccountTexts == {<<"c", "l", "e", "a", "r">>, <<"b">>}
MenuWhenTexts == {WhenDaily, WhenNone}

\* the user sends /record, /settings, /cancel and texts at will and presses
\* the buttons of the last message; the id of the spreadsheet and the euro
\* are what is set
NextMenus ==
    \/ start
    \/ Shown("record.NEW") /\ new_record
    \/ Shown("record.CANCEL") /\ cancel
    \/ cancel_command
    \/ Shown("record.CANCEL") /\ stop
    \/ Shown("record.SHOW") /\ show_data
    \/ Shown("record.BACK") /\ back_to_start
    \/ stop_command
    \/ settings_start
    \/ Shown("END") /\ settings_back_to_start
    \/ Shown("CANCEL") /\ settings_stop
    \/ \E m \in MenuNames : Shown("BACK") /\ menu_back_to_start(m)
    \/ \E m \in MenuNames : menu_cancel(m)
    \/ \E flow \in FlowOutcomes : Shown("LOGIN") /\ start_login(flow)
    \/ \E outcome \in CodeOutcomes : store_auth_code(outcome)
    \/ Shown("RESET") /\ reset_login
    \/ Shown("SHOW") /\ show_login
    \/ Shown("SPREADSHEET") /\ start_spreadsheet
    \/ Shown("ID") /\ prompt_spreadsheet("id")
    \/ \E data \in Texts : set_spreadsheet(data)
    \/ Shown("UP_ONE_LEVEL") /\ up_one_level
    \/ Shown("ACCOUNTS") /\ get_accounts
    \/ Shown("MODIFY_ACCOUNTS") /\ prompt_accounts
    \/ \E text \in MenuAccountTexts : set_accounts(text)
    \/ Shown("CURRENCY") /\ get_preferred_currency
    \/ Shown("CURRENCY_CODE") /\ set_preferred_currency(CURRENCIES["E"])
    \/ Shown("SCHEDULE") /\ start_schedule
    \/ Shown("DEFAULT_SCHEDULE") /\ set_default_schedule
    \/ Shown("CUSTOM_SCHEDULE") /\ prompt_custom_schedule
    \/ \E w \in MenuWhenTexts : set_custom_schedule(w)
    \/ Shown("REMOVE_SCHEDULE") /\ remove_schedule

SpecMenus == InitMenus /\ [][NextMenus]_vars

\* The default currency and the amounts of the records: the user sets or
\* resets a default currency in /settings and enters amounts with and
\* without a currency in /record
PlainAmount == <<"1", "0", "0">>
PoundAmount == <<PoundSign, "9">>
CurrencyAmounts == {PlainAmount, AmountText, PoundAmount}

NextCurrency ==
    \/ settings_start
    \/ get_preferred_currency
    \/ \E data \in CurrencyButtons : set_preferred_currency(data)
    \/ menu_back_to_start("currency")
    \/ settings_stop
    \/ start
    \/ new_record
    \/ prompt("amount")
    \/ \E data \in CurrencyAmounts : store(data)
    \/ \E now \in Times : save(now)
    \/ back_to_start_ok
    \/ stop

SpecCurrency == InitRecord /\ [][NextCurrency]_vars

\* A record entered and saved, then written by the scheduled task: the user
\* is logged in, the spreadsheet is set and the default schedule runs; the
\* user sends "-50 usd" for the amount and "groceries" for the reason, and
\* saves while no record is saved
Groceries == <<"g", "r", "o", "c", "e", "r", "i", "e", "s">>
ScenarioText(f) == IF f = "amount" THEN AmountText ELSE Groceries

InitScenario ==
    /\ InitSession
    /\ InitTasks
    /\ auth = AuthDone
    /\ token_file_exists = TRUE
    /\ spreadsheet = SheetBoth
    /\ InitPreferences
    /\ jobs = {NewJob("daily", TRUE, 1)}
    /\ nsched = 1
    /\ InitAmount

NextScenario ==
    \/ start
    \/ new_record
    \/ \E f \in SavedFields : prompt(f)
    \/ \E f \in SavedFields : /\ <<"choice", Str(f)>> \in {record[i] : i \in 1..Len(record)}
                               /\ store(ScenarioText(f))
    \/ \E now \in Times : records = <<>> /\ save(now)
    \/ back_to_start_ok
    \/ TaskActions

SpecScenario == InitScenario /\ [][NextScenario]_vars

\* The bot of bot/: the /record conversation and /show.  The buttons of
\* the calendar carry the text of a date (bot/utils.py), which the pattern
\* isinstance(data, dt.date) of store does not take: store gets texts only
OpenAIResponses == {"error", "record", "none"}

NextBot ==
    \/ bot_start
    \/ \E f \in RecordData : bot_input(f)
    \/ \E response \in OpenAIResponses : bot_input_natural_language(response)
    \/ \E d \in {-1, 1} : bot_change_calendar_keyboard(d)
    \/ \E valid \in BOOLEAN : bot_store(FALSE, valid)
    \/ \E now \in Times : bot_save(now)
    \/ bot_cancel
    \/ bot_back_to_start
    \/ bot_show_records

SpecBot == InitRecord /\ [][NextBot]_vars

(* ------------------------------ properties ------------------------------ *)
\* thread t runs lines 338-372 of add_to_spreadsheet in this step
Begins(t) == pc[t] = "start" /\ pc'[t] # "start"

\* thread t gets the result of append_records in this step
WriteEnds(t) == pc[t] = "writing" /\ pc'[t] = "idle"

InFlight == {t \in Threads : pc[t] # "idle"}

\* the threads between reading the records and clearing them
Executing == {t \in Threads : pc[t] \in {"oauth", "creds", "append", "writing"}}

\* the login has been completed and its credentials are stored
AuthorizationComplete ==
    /\ "auth_is_done" \in DOMAIN auth
    /\ auth["auth_is_done"] = Bool(TRUE)
    /\ "creds" \in DOMAIN auth

\* the id and the sheet name of the spreadsheet have both been entered
SpreadsheetConfigured == {"id", "sheet_name"} \subseteq DOMAIN spreadsheet

\* C1: whenever the append to the sheet fails during a task, the records
\* after the task are the list they were when the task started, and the
\* message sent to the user is the failure message.
C1_FailedWriteKeepsRecords ==
    [][\A t \in Threads :
        (WriteEnds(t) /\ res[t] # "ok")
            => (records' = begun[t] /\ sent'.kind = "write_failed")]_vars

\* C2: a task whose append succeeds writes exactly the records of its start,
\* in their order, as one batch; afterwards the records are empty and the
\* count reported is the number of rows written.
C2_SuccessfulFlushWritesAll ==
    [][\A t \in Threads :
        (WriteEnds(t) /\ res[t] = "ok")
            => /\ vals[t] = Rows(begun[t])
               /\ Len(ledger) >= Len(vals[t])
               /\ SubSeq(ledger, Len(ledger) - Len(vals[t]) + 1, Len(ledger)) = vals[t]
               /\ records' = <<>>
               /\ sent' = Msg("success", Len(vals[t]))]_vars

\* C3: after a task whose write failed on a non-empty list of records, a
\* task that runs with nothing saved or cleared in between, reports no
\* failure and has no failing write ends with the records empty and with
\* the sheet holding each of those records once more than before.
C3_RetryAfterFailureLosesNothing ==
    [][\A t \in Threads :
        (/\ failed.on
         /\ pc[t] # "idle" /\ pc'[t] = "idle"
         /\ sent'.kind \in {"no_records", "success"}
         /\ (pc[t] = "writing" => res[t] = "ok"))
            => (records' = <<>> /\ ledger' = failed.ledger \o failed.rows)]_vars

\* C4: at most one execution of add_to_spreadsheet is in flight for the user.
C4_OneFlushInFlight == Cardinality(InFlight) <= 1

\* C4 witness: a job of the user is due while a task of an earlier job of
\* the user is still running.
C4_Witness ==
    \E t \in Threads : \E j \in jobs :
        pc[t] \in {"oauth", "creds", "append", "writing"} /\ j.seq # ctx[t].seq

\* C5: handlers change the records only while no task is between reading
\* and clearing them, and a task whose write succeeded clears only records
\* that were in its batch.
C5_NoInterleavingWithFlush ==
    [][/\ (records' # records /\ pc' = pc) => Executing = {}
       /\ \A t \in Threads :
            (WriteEnds(t) /\ res[t] = "ok") => Rows(records) = vals[t]]_vars

\* C6: the job queue holds at most one job of the user, and a job that
\* starts running is the one installed last.
C6_OneJobLatestFires ==
    [][/\ Cardinality({j \in jobs' : j.name = job_name(UserId)}) <= 1
       /\ \A t \in Threads :
            (pc[t] = "idle" /\ pc'[t] = "start") => ctx'[t].seq = nsched]_vars

\* C6 witness: a second schedule has replaced the first and its job runs.
C6_Witness ==
    /\ nsched >= 2
    /\ \E t \in Threads : pc[t] = "start" /\ ctx[t].seq = nsched /\ ctx[t].seq >= 2

\* C7: with records to append, a task that finds the authorization
\* incomplete, or complete but the spreadsheet id or sheet name not set,
\* sends the message of that case, ends without a write and leaves the
\* records as they are.
C7_PreconditionFailureReported ==
    [][\A t \in Threads :
        (Begins(t) /\ has_records /\ records # <<>>)
            => /\ ~AuthorizationComplete
                    => /\ sent' = Msg("auth_incomplete", 0)
                       /\ pc'[t] = "idle"
                       /\ ledger' = ledger
                       /\ records' = records
               /\ (AuthorizationComplete /\ ~SpreadsheetConfigured)
                    => /\ sent' = Msg("not_set", 0)
                       /\ pc'[t] = "idle"
                       /\ ledger' = ledger
                       /\ records' = records]_vars

\* C7 witness: a task has reported that the spreadsheet is not set while
\* records are waiting.
C7_Witness ==
    /\ sent.kind = "not_set"
    /\ records # <<>>
    /\ AuthorizationComplete
    /\ ~SpreadsheetConfigured

\* C8: when oauth raises RefreshError the task sends the re-login message,
\* which is none of the other failure messages, ends without a write and
\* leaves the records as they are.
C8_RefreshErrorReported ==
    [][\A t \in Threads :
        (pc[t] = "creds" /\ pc'[t] # "creds" /\ res[t] = "RefreshError")
            => /\ sent' = Msg("relogin", 0)
               /\ sent'.kind \notin {"auth_incomplete", "not_set", "write_failed", "error"}
               /\ pc'[t] = "idle"
               /\ ledger' = ledger
               /\ records' = records]_vars

\* C8 witness: a task has ended on the re-login message with records waiting.
C8_Witness == sent.kind = "relogin" /\ records # <<>> /\ InFlight = {}

\* C9: a task that finds no records sends the 'no records' message, raises
\* nothing, checks neither authorization nor spreadsheet, writes nothing and
\* leaves the session as it is.
C9_NothingToFlush ==
    [][\A t \in Threads :
        (Begins(t) /\ (~has_records \/ records = <<>>))
            => /\ sent' = Msg("no_records", 0)
               /\ ~raised'
               /\ pc'[t] = "idle"
               /\ ledger' = ledger
               /\ <<records, has_records, record, has_record, auth, spreadsheet>>'
                    = <<records, has_records, record, has_record, auth, spreadsheet>>]_vars

\* C9 witness: a task has reported 'no records' for a user whose
\* authorization is incomplete.
C9_Witness == sent.kind = "no_records" /\ ~AuthorizationComplete /\ InFlight = {}

\* C10: remove_schedule leaves no job of the user, and replies 'removed'
\* exactly when a job of the user was registered before it.
C10_RemoveSchedule ==
    [][(sch = "SET_SCHEDULE" /\ sch' = "INPUT"
            /\ reply'[1] \in {"schedule_removed", "schedule_not_found"})
            => /\ {j \in jobs' : j.name = job_name(UserId)} = {}
               /\ (reply'[1] = "schedule_removed")
                    <=> ({j \in jobs : j.name = job_name(UserId)} # {})]_vars

\* C10 witness: a registered job has been removed.
C10_Witness == reply = <<"schedule_removed">> /\ jobs = {} /\ nsched > 0

\* the step takes a cancel input: the Cancel button or the /cancel command
\* in the new record conversation, the Cancel button of the record menu
CancelInput ==
    /\ ret' # ret
    /\ \/ ret'.handler = "cancel"
       \/ ret'.handler = "stop" /\ sub = "END"

\* C11: in every state of the record conversations a cancel input, the
\* Cancel button or the /cancel command, leaves the record being entered
\* empty and both conversations ended.
C11_CancelExitsTree ==
    [][CancelInput => (record' = <<>> /\ sub' = "END" /\ top' = "END")]_vars

\* the step is cancel or stop of the record conversations
CancelOrStop == ret' # ret /\ ret'.handler \in {"cancel", "stop"}

\* C12: cancel and stop leave the records and every running task as they
\* are, and wait for no task: in the states their conversation accepts them
\* they can be taken, whatever the tasks are doing.
C12_CancelStopLeaveFlush ==
    [][/\ CancelOrStop =>
            /\ records' = records
            /\ <<pc, ctx, begun, vals, res, ledger, jobs>>'
                    = <<pc, ctx, begun, vals, res, ledger, jobs>>
       /\ (top = "SELECTING_ACTION" /\ InFlight # {}) =>
            /\ ENABLED stop_command
            /\ (sub = "END" => ENABLED stop)
            /\ (sub # "END" => ENABLED cancel /\ ENABLED cancel_command)]_vars

\* C12 witness: the new record was cancelled while a task was waiting for
\* append_records to return.
C12_Witness ==
    /\ ret.handler = "cancel"
    /\ top = "END"
    /\ \E t \in Threads : pc[t] = "writing"
    /\ records # <<>>

\* the step is store for the field chosen before
Stores(f) ==
    /\ ret' # ret
    /\ ret'.handler = "store"
    /\ "choice" \in OKeys(record)
    /\ OGet(record, "choice") = Str(f)

\* C13: a text for the date or the amount that does not parse leaves the
\* conversation waiting for the value, leaves the record as it is and is
\* answered with a message that tells the user so.
C13_InvalidInputReprompts ==
    [][\A f \in {"date", "amount"} :
        (Stores(f) /\ parse_data_raises(f, ret'.arg))
            => /\ sub' = "REPLY"
               /\ record' = record
               /\ reply'[1] = "invalid_value"]_vars

\* the fields store writes for the field chosen
Written(f) == IF f = "amount" THEN {"amount", "currency"} ELSE {f}

Saves == ret' # ret /\ ret'.handler = "save"

\* field k of record rec has a value
HasValue(rec, k) == k \in OKeys(rec) /\ OGet(rec, k) \notin {None, Str(<<>>)}

\* C15: save appends the record exactly when it has an amount and a reason;
\* otherwise it reports the missing fields, appends nothing, leaves the
\* record as it is and stays in the same state.
C15_SaveNeedsAmountAndReason ==
    [][Saves =>
        IF HasValue(record, "amount") /\ HasValue(record, "reason")
        THEN reply'[1] = "saved" /\ Len(records') = Len(records) + 1
        ELSE /\ reply'[1] = "missing_fields"
             /\ records' = records
             /\ record' = record
             /\ sub' = sub]_vars

\* C16: a save that succeeds appends one record at the end of the records
\* and leaves the earlier ones in their places; the record appended has the
\* values of the fields of the record entered and the time of the save, and
\* the record entered is empty afterwards.
C16_SaveAppendsStamped ==
    [][(Saves /\ reply'[1] = "saved") =>
        /\ Len(records') = Len(records) + 1
        /\ SubSeq(records', 1, Len(records)) = records
        /\ LET saved == records'[Len(records')] IN
            /\ OKeys(saved) = (OKeys(record) \ {"choice"}) \cup {"recorded_on"}
            /\ \A k \in OKeys(record) \ {"choice", "recorded_on"} :
                    OGet(saved, k) = OGet(record, k)
            /\ OGet(saved, "recorded_on") = Stamp(ret'.arg[1])
        /\ record' = <<>>]_vars

\* C16 witness: a second record, with an amount, has been saved after a
\* first one.
C16_Witness ==
    /\ ret.handler = "save"
    /\ reply = <<"saved">>
    /\ Len(records) = 2
    /\ HasValue(records[2], "amount")
    /\ record = <<>>

\* every record of recs is at its place in after, with its values
Kept(recs, after) ==
    /\ Len(after) >= Len(recs)
    /\ \A i \in 1..Len(recs) : after[i] = recs[i]

\* C17: a record among the records keeps its place and the value of every
\* field in every step of a handler of the conversations other than
\* clear_data, whatever is started, entered, saved or cancelled after it
\* and whatever the tasks are doing.
C17_PendingRecordsKept ==
    [][(ret' # ret /\ ret'.handler # "clear_data") => Kept(records, records')]_vars

\* C17 witness: with a record saved, the reason of another record has been
\* entered and that record saved after the first.
C17_Witness ==
    /\ ret.handler = "save"
    /\ reply = <<"saved">>
    /\ Len(records) = 2
    /\ ~HasValue(records[1], "reason")
    /\ HasValue(records[2], "reason")

\* the step is show_data
Shows == ret' # ret /\ ret'.handler = "show_data"

\* C18: show_data changes neither the records nor the record being entered;
\* it lists the records in the order they have among the records, and shown
\* again with nothing done in between it gives the same list in the same
\* order.
C18_ShowIdempotent ==
    [][Shows =>
        /\ records' = records
        /\ record' = record
        /\ IF records = <<>>
           THEN reply' = <<"no_records_yet">>
           ELSE /\ reply'[1] = "records"
                /\ Len(reply'[2]) = Len(records)
                /\ \A i \in 1..Len(records) : reply'[2][i] = data_to_str(records[i])
        /\ (ret.handler = "show_data" => reply' = reply)]_vars

\* C18 witness: two records that differ have been shown.
C18_Witness ==
    /\ ret.handler = "show_data"
    /\ reply[1] = "records"
    /\ Len(records) = 2
    /\ data_to_str(records[1]) # data_to_str(records[2])

\* the step is clear_data
Clears == ret' # ret /\ ret'.handler = "clear_data"

\* recs without the records at the places from a to b
Without(recs, a, b) == SubSeq(recs, 1, a - 1) \o SubSeq(recs, b + 1, Len(recs))

\* C19: clear_data removes the records its selector names and no other, and
\* tells how many: all of them for "*", those at the places from a to b for
\* a range within the records, and none, with an error or the message that
\* there is nothing to clear, for a range that goes beyond the records.
C19_ClearSelected ==
    [][Clears =>
        LET selector == ret'.arg IN
        IF selector = <<"*">>
        THEN records' = <<>>
        ELSE IF 1 <= selector[1] /\ selector[2] <= Len(records)
        THEN /\ records' = Without(records, selector[1], selector[2])
             /\ reply' = <<"cleared", selector[2] - selector[1] + 1>>
        ELSE /\ records' = records
             /\ reply'[1] \in {"error", "nothing_to_clear"}]_vars

\* a handler of conversation conv took the update of this step
HandledIn(conv) == ret' # ret /\ ret'.conv = conv

\* C20: when a handler of a conversation inside another returns END, the
\* inner conversation is over and the outer one is in SELECTING_ACTION; when
\* it returns STOPPING, both are over.  The inner conversations are the new
\* record of /record and the five conversations of the menu of /settings.
C20_NestedEnds ==
    [][/\ HandledIn("new_record_handler") =>
            /\ ret'.state = "END" => (sub' = "END" /\ top' = "SELECTING_ACTION")
            /\ ret'.state = "STOPPING" => (sub' = "END" /\ top' = "END")
       /\ \A m \in MenuNames : HandledIn(m) =>
            /\ ret'.state = "END" =>
                    (menu_state(m)' = "END" /\ stg' = "SELECTING_ACTION")
            /\ ret'.state = "STOPPING" =>
                    (menu_state(m)' = "END" /\ stg' = "END")]_vars

\* C20 witness: the login has returned END to the settings menu, in a
\* /settings entered again after a schedule was set, which returned
\* STOPPING.
C20_Witness ==
    /\ ret.conv = "login"
    /\ ret.state = "END"
    /\ lgn = "END"
    /\ stg = "SELECTING_ACTION"
    /\ nsched > 0

\* the step is a start or a back_to_start that did not raise
Starts ==
    /\ ret' # ret
    /\ ret'.handler \in {"start", "back_to_start"}
    /\ ret'.state # "raised"

\* C21: the menu of /record and of /settings is edited in place when start
\* is reached through back_to_start and sent as a new message when it is
\* reached through the command, and user_data["start_over"] is false after
\* every step, so that no command finds it set.
C21_StartOverReset ==
    [][/\ start_over' = FALSE
       /\ Starts =>
            reply'[2] = IF ret'.handler = "back_to_start" THEN "edited" ELSE "sent"]_vars

\* C21 witness: the Back button of the accounts has brought the settings
\* menu back, edited in place, with accounts saved and the record menu open.
C21_Witness ==
    /\ ret.conv = "accounts"
    /\ ret.handler = "back_to_start"
    /\ reply = <<"settings_menu", "edited">>
    /\ start_over = FALSE
    /\ accounts # <<>>
    /\ top = "SELECTING_ACTION"

\* the step is a quick_save that did not raise
QuickSaves ==
    /\ ret' # ret
    /\ ret'.handler = "quick_save"
    /\ ret'.state # "raised"

\* the lines of a message
RECURSIVE Lines(_)
Lines(text) ==
    IF Positions(text, "\n") = {} THEN <<text>>
    ELSE LET i == Least(Positions(text, "\n"))
         IN <<SubSeq(text, 1, i - 1)>> \o Lines(SubSeq(text, i + 1, Len(text)))

\* the facts of the record a line of date, reason, amount, account gives
LineFacts(line) ==
    LET fields == split(line)
        n == IF Len(fields) < 4 THEN Len(fields) ELSE 4
    IN data_to_str(quick_fill(FromKeys,
            [i \in 1..n |-> <<QuickKeys[i], strip(fields[i])>>]))

\* C22: a quick message of N lines appends N records to the records, the
\* record of each line in the order of the lines, and changes neither the
\* record being entered nor the state of a conversation.
C22_QuickSaveAppendsLines ==
    [][QuickSaves =>
        LET lines == Lines(Tail(ret'.arg)) IN
        /\ Len(records') = Len(records) + Len(lines)
        /\ \A i \in 1..Len(records) : records'[i] = records[i]
        /\ \A i \in 1..Len(lines) :
                data_to_str(records'[Len(records) + i]) = LineFacts(lines[i])
        /\ record' = record
        /\ <<top, sub>>' = <<top, sub>>]_vars

\* the parser of bot/currencies.py has been called with the text given
Parsed == parsed.parser = "currencies"

\* C23: an amount with the code, the symbol, an alias or the first letter of
\* the code of a currency after it, in upper or in lower case, after a space
\* or none, parses to the value of the number and the code of that
\* currency, and so do the amounts of the tests.
C23_MarkedAmountParses ==
    \A a \in MarkedAmounts \cup MarkedExamples :
        (Parsed /\ given = a.text) => parsed.value = <<Num(a.cents), Str(a.code)>>

\* the text has no letter and no sign of a currency
Unmarked(text) ==
    \A i \in 1..Len(text) : text[i] \notin Lower \cup Upper \cup {EuroSign, "$", PoundSign}

\* C24: an amount with a number and no mark of a currency parses to the
\* number and no currency, None, and the parser does not raise: the amounts
\* without a currency of the tests get their values, and every text with a
\* digit and without a mark gets a number and None.
C24_PlainAmountParses ==
    Parsed =>
        /\ \A a \in PlainExamples : given = a.text => parsed.value = <<Num(a.cents), None>>
        /\ (Unmarked(given) /\ Keep(given, Digits) # <<>>) =>
                /\ ~parsed.raised
                /\ parsed.value[1][1] = "num"
                /\ parsed.value[2] = None

C24_Witness ==
    /\ Parsed
    /\ given = <<"1", ",", "0", "0", "0", ".", "0", "0">>
    /\ parsed.value = <<Num(100000), None>>

\* C25: the empty amount parses to 0.00 and no currency.
C25_EmptyAmountIsZero == (Parsed /\ given = <<>>) => parsed.value = <<Num(0), None>>

C25_Witness == Parsed /\ given = <<>> /\ parsed.value[1] = Num(0) /\ ~parsed.raised

\* C26: whatever the text, the empty text, a text without a digit and a
\* text of separators and marks among them, the amount parser that is
\* called with it returns and does not raise.
C26_ParserNeverRaises == parsed.parser # "none" => ~parsed.raised

\* C27: for a text that is not empty and has no digit, so no number, the
\* parser returns what tells it from a text that parses to a number, the
\* number 0 without a currency among them.
C27_NoNumberIsFailure ==
    (Parsed /\ given # <<>> /\ Keep(given, Digits) = <<>>) =>
        /\ parsed.value[1][1] # "num"
        /\ parsed.value # currencies_currency_parser(<<"0">>)

\* store has taken an amount without the mark of a currency
StoresPlainAmount ==
    /\ ret' # ret
    /\ ret'.handler = "store"
    /\ ret'.state = "INPUT"
    /\ OGet(record, "choice") = Str("amount")
    /\ Unmarked(ret'.arg)

\* save has appended the record
SavesRecord ==
    /\ ret' # ret
    /\ ret'.handler = "save"
    /\ Len(records') = Len(records) + 1

\* C28: an amount entered without the mark of a currency is stored with the
\* default currency of the user when one is set and with the unknown
\* currency when none is, and the record saved has the currency of the
\* record that was entered.
C28_DefaultCurrencyStored ==
    [][/\ StoresPlainAmount =>
            OGet(record', "currency") = IF default_cur = None THEN Str(<<"X">>)
                                        ELSE default_cur
       /\ SavesRecord =>
            OGet(records'[Len(records')], "currency") = OGet(record, "currency")]_vars

Unsigned(text) ==
    /\ text # <<>>
    /\ text[1] \in Digits
    /\ \A i \in 1..Len(text) : text[i] \notin {"-", "%"}
    /\ parse_number(extract_number(text)) # None

\* C30: the parser keeps the sign: for an amount t without a sign that
\* parses, the amount "-" t parses to the negative of what t parses to, the
\* amounts with separators of thousands and with the euro sign for the
\* decimal separator ("1 000<euro>50") among them; the value is a number of
\* hundredths.
C30_SignPreserved ==
    (Parsed /\ Unsigned(given)) =>
        /\ parsed.value[1][2] \in Int
        /\ currencies_currency_parser(<<"-">> \o given)[1] = Num(0 - parsed.value[1][2])

\* the currencies a record can have: the four codes, the unknown currency
\* "X", and None while no amount has been entered
RecordCurrencies ==
    {Str(<<"E", "U", "R">>), Str(<<"U", "S", "D">>), Str(<<"C", "H", "F">>),
     Str(<<"G", "B", "P">>), Str(<<"X">>), None}

\* the currency of a record that has one
CurrencyIn(rec) == "currency" \in OKeys(rec) => OGet(rec, "currency") \in RecordCurrencies

\* C31: in every state the currency of the record being entered and of
\* every record saved is EUR, USD, CHF, GBP or unknown, whatever the text of
\* the amount was.
C31_CurrencyIsKnownCode ==
    /\ CurrencyIn(record)
    /\ \A i \in 1..Len(records) : CurrencyIn(records[i])

\* save takes the record with the amount of "-50 usd" and the reason
\* "groceries", nothing else entered, while no record is saved
SavesScenario ==
    /\ ret' # ret
    /\ ret'.handler = "save"
    /\ records = <<>>
    /\ {"amount", "reason", "date", "account"} \subseteq OKeys(record)
    /\ OGet(record, "amount") = Num(-5000)
    /\ OGet(record, "reason") = Str(Groceries)
    /\ OGet(record, "date") = None
    /\ OGet(record, "account") = None

\* C32: New record, Amount, "-50 usd", Reason, "groceries" and Save on a
\* user without records leave one record, with the amount -50.00, the
\* currency USD, the reason "groceries" and the date "-"; a task that then
\* writes that one record to the sheet empties the records and reports one
\* record added.
C32_ScenarioSavesAndFlushes ==
    [][/\ SavesScenario =>
            /\ Len(records') = 1
            /\ OGet(records'[1], "amount") = Num(-5000)
            /\ OGet(records'[1], "currency") = Str(<<"U", "S", "D">>)
            /\ OGet(records'[1], "reason") = Str(Groceries)
            /\ OGet(records'[1], "date") = Str(<<"-">>)
       /\ \A t \in Threads :
            (WriteEnds(t) /\ res[t] = "ok" /\ Len(records) = 1 /\ begun[t] = records) =>
                /\ records' = <<>>
                /\ sent' = Msg("success", 1)]_vars

\* a task stops at its check of the login or of the spreadsheet
StopsOnCheck(t) == Begins(t) /\ sent'.kind \in {"auth_incomplete", "not_set"}

\* C33: a task that stops because the login is not complete, or because the
\* ID or the sheet name of the spreadsheet is not set, leaves the records,
\* the login data and every key of the spreadsheet data as they were.
C33_StoppedFlushChangesNothing ==
    [][\A t \in Threads :
        StopsOnCheck(t) =>
            /\ records' = records
            /\ auth' = auth
            /\ spreadsheet' = spreadsheet]_vars

\* the part of C33 that the code keeps: records and login data as they were
StoppedFlushKeepsRecords ==
    [][\A t \in Threads :
        StopsOnCheck(t) => records' = records /\ auth' = auth]_vars

\* set_custom_schedule has handled the text w
SetsCustom(w) ==
    ret' # ret /\ ret'.handler = "set_custom_schedule" /\ ret'.arg = w

\* the examples that are of a form the prompt lists, with the kind and the
\* trigger of the job each stands for
ListedWhen ==
    { <<WhenNow, "once", <<"when", "now">>>>,
      <<WhenSeconds, "once", <<"when", 5>>>>,
      <<WhenTime, "once", <<"when", 10, 30>>>>,
      <<WhenDaily, "daily", <<"time", 10, 30>>>>,
      <<WhenWeekly, "weekly", <<"days", 0, 10, 30>>>>,
      <<WhenSunday, "weekly", <<"days", 6, 10, 30>>>>,
      <<WhenMonthly, "monthly", <<"day", 5, 10, 30>>>> }

\* the text of every listed form leaves one job of the user, of the kind
\* and the trigger of the form, and ends the /settings conversation
ListedWhenSchedules ==
    [][\A l \in ListedWhen :
        SetsCustom(l[1]) =>
            /\ \E j \in jobs' :
                /\ get_jobs_by_name(jobs', job_name(UserId)) = {j}
                /\ j.kind = l[2]
                /\ j.recurring = (l[2] # "once")
                /\ j.at = l[3]
            /\ sch' = "END"
            /\ stg' = "END"]_vars

\* a text of no listed form gets the reply of an invalid time
\* specification, adds no job and leaves the conversation at the input
OtherWhenRejected ==
    [][\A w \in WhenTexts \ {l[1] : l \in ListedWhen} :
        SetsCustom(w) =>
            /\ reply' = <<"invalid_schedule">>
            /\ jobs' \subseteq jobs
            /\ sch' = "INPUT"
            /\ stg' = "SELECTING_ACTION"]_vars

\* C34: set_custom_schedule turns now, SS and HH:MM into one job that runs
\* once, d HH:MM into one daily job, d D HH:MM into one weekly job on day D
\* and m DD HH:MM into one monthly job on day DD, and ends the /settings
\* conversation; any other text gets the reply of an invalid time
\* specification, adds no job and leaves the conversation at the input.
C34_CustomScheduleForms ==
    [][/\ \A l \in ListedWhen :
            SetsCustom(l[1]) =>
                /\ \E j \in jobs' :
                    /\ get_jobs_by_name(jobs', job_name(UserId)) = {j}
                    /\ j.kind = l[2]
                    /\ j.recurring = (l[2] # "once")
                    /\ j.at = l[3]
                /\ sch' = "END"
                /\ stg' = "END"
       /\ \A w \in WhenTexts \ {l[1] : l \in ListedWhen} :
            SetsCustom(w) =>
                /\ reply' = <<"invalid_schedule">>
                /\ jobs' \subseteq jobs
                /\ sch' = "INPUT"
                /\ stg' = "SELECTING_ACTION"]_vars

\* C35: when set_custom_schedule replies that the time specification is
\* invalid, the job of the user that was scheduled before is still
\* scheduled.
C35_InvalidKeepsSchedule ==
    [][(/\ ret' # ret
        /\ ret'.handler = "set_custom_schedule"
        /\ reply' = <<"invalid_schedule">>) =>
            get_jobs_by_name(jobs, job_name(UserId)) \subseteq jobs']_vars

\* the states of new_record_handler that have handlers, and END
new_record_states == {"END", "INPUT", "REPLY"}

\* the menu of /record is what the user sees
RecordMenuShown == top = "SELECTING_ACTION" /\ reply[1] = "record_menu"

\* C36: while the menu of /record is shown, new_record_handler is over, so
\* that the New record button enters it at INPUT, also when the menu came
\* back through the Ok button of a saved record; and new_record_handler is
\* never left in a state it has no handlers for.
C36_NewRecordEnters ==
    /\ RecordMenuShown => sub = "END"
    /\ sub \in new_record_states

\* the menus of /settings are never left in a state without handlers
MenusInStates ==
    /\ lgn \in {"END", "NEW_LOGIN", "EDIT_LOGIN"}
    /\ sps \in {"END", "INPUT", "REPLY"}
    /\ sch \in {"END", "SET_SCHEDULE", "INPUT"}
    /\ acc \in {"END", "SET_ACCOUNTS", "INPUT"}
    /\ cur \in {"END", "INPUT"}

\* C37: every record of the records has the six keys date, reason, amount,
\* currency, account and recorded_on, in that order, and no key "choice".
C37_RecordLayout ==
    \A i \in 1..Len(records) :
        [k \in 1..Len(records[i]) |-> records[i][k][1]] = RECORD_KEYS

\* store of bot/record.py has taken a text that is valid for the field
\* chosen
StoresValidText ==
    bot'.n # bot.n /\ bot'.handler = "store" /\ bot'.arg = <<FALSE, TRUE>>

\* C38: in a /record conversation of bot/, also one that follows a
\* cancelled one, a valid text for the field chosen is written to the
\* record of user_data and acknowledged.
C38_CancelLeavesNothing ==
    [][StoresValidText =>
        /\ bot'.reply = <<"recorded", bot.choice>>
        /\ OGet(bot'.record, bot.choice) = Str(Text)]_vars

\* the same for the texts store takes while no calendar without a month is
\* left
StoresUnlessCalendarLeft ==
    [][(StoresValidText /\ ~store_raises(bot, FALSE)) =>
        /\ bot'.reply = <<"recorded", bot.choice>>
        /\ OGet(bot'.record, bot.choice) = Str(Text)]_vars

\* /show of bot/ is handled for a user without the key "records"
ShowsWithoutRecords ==
    bot'.n # bot.n /\ bot'.handler = "show_records" /\ "records" \notin bot.keys

\* C40: /show for a user who never entered the /record conversation of
\* bot/ replies that no records were found, does not raise, and leaves
\* user_data as it was.
C40_ShowWithoutRecords ==
    [][ShowsWithoutRecords =>
        /\ bot'.reply = <<"no_records">>
        /\ ~bot'.raised
        /\ bot'.keys = bot.keys
        /\ bot'.records = bot.records
        /\ bot'.record = bot.record]_vars

\* the part of C40 that the code keeps: user_data is as it was
ShowLeavesUserData ==
    [][ShowsWithoutRecords =>
        /\ bot'.keys = bot.keys
        /\ bot'.records = bot.records
        /\ bot'.record = bot.record]_vars

\* show_data has shown the records of a user who has some
ShowsRecords ==
    ret' # ret /\ ret'.handler = "show_data" /\ has_records /\ records # <<>>

\* C39: when show_data shows the records, the time it tells is "never" if
\* and only if no job of the user is scheduled; with a job that was set in
\* the schedule menu of /settings it tells the next run of that job.
C39_ShowTellsNextRun ==
    [][ShowsRecords =>
        (reply'[3] = "never" <=> get_jobs_by_name(jobs, job_name(UserId)) = {})]_vars

TypeOK ==
    /\ Len(records) <= MaxPending
    /\ Len(ledger) <= MaxLedger
    /\ nsched <= MaxSched

====
